---------------------------- MODULE Spec2Model ----------------------------
(***************************************************************************)
(* A model of the hash engine of hfridholm/hashing: the SHA-256            *)
(* implementation of source/sha256.c and the MD5 implementation of         *)
(* source/md5.h.                                                           *)
(*                                                                         *)
(* A uint32_t is modelled as a pair <<hi, lo>> of its two 16-bit halves    *)
(* (value = hi * 2^16 + lo), every half kept in 0 .. 2^16 - 1, so that     *)
(* 32-bit arithmetic wraps exactly as it does in C.                        *)
(***************************************************************************)
EXTENDS Integers, Sequences, FiniteSets, TLC

(***************************************************************************)
(* The bit operators of C on non-negative integers, and the 16-bit halves  *)
(***************************************************************************)
Half == 2^16

RECURSIVE BitAnd(_, _)
BitAnd(a, b) ==
  IF a = 0 \/ b = 0 THEN 0
  ELSE (a % 2) * (b % 2) + 2 * BitAnd(a \div 2, b \div 2)

RECURSIVE BitXor(_, _)
BitXor(a, b) ==
  IF a = 0 THEN b
  ELSE IF b = 0 THEN a
  ELSE ((a + b) % 2) + 2 * BitXor(a \div 2, b \div 2)

BitOr(a, b) == a + b - BitAnd(a, b)

Not16(a) == (Half - 1) - a

(***************************************************************************)
(* uint32_t values and the operators the two algorithms use on them        *)
(***************************************************************************)
Word(hi, lo) == <<hi, lo>>

\* x is a uint32_t
IsWord(x) == /\ x[1] \in 0..(Half - 1)
             /\ x[2] \in 0..(Half - 1)

AND(x, y) == Word(BitAnd(x[1], y[1]), BitAnd(x[2], y[2]))
XOR(x, y) == Word(BitXor(x[1], y[1]), BitXor(x[2], y[2]))
OR(x, y)  == Word(BitOr(x[1], y[1]), BitOr(x[2], y[2]))
NOT(x)    == Word(Not16(x[1]), Not16(x[2]))

\* the two 16-bit halves added apart: the carry out of bit 15 is lost
ADD_no_carry(x, y) == Word((x[1] + y[1]) % Half, (x[2] + y[2]) % Half)

\* uint32_t + uint32_t: the carry out of bit 31 is dropped
ADD(x, y) ==
  LET lo == x[2] + y[2]
  IN  Word((x[1] + y[1] + (lo \div Half)) % Half, lo % Half)

\* #define LSHIFT(a, b) ((a) << (b)) on a uint32_t, 0 <= b <= 31
LSHIFT(x, b) ==
  IF b >= 16
  THEN Word((x[2] * 2^(b - 16)) % Half, 0)
  ELSE Word((x[1] * 2^b + (x[2] \div 2^(16 - b))) % Half, (x[2] * 2^b) % Half)

\* #define RSHIFT(a, b) ((a) >> (b)) on a uint32_t, 0 <= b <= 31
RSHIFT(x, b) ==
  IF b >= 16
  THEN Word(0, x[1] \div 2^(b - 16))
  ELSE Word(x[1] \div 2^b, (x[2] \div 2^b) + (x[1] % 2^b) * 2^(16 - b))

\* #define RROTATE(a, b) (RSHIFT(a, b) | LSHIFT(a, 32 - (b)))
RROTATE(x, b) == OR(RSHIFT(x, b), LSHIFT(x, 32 - b))

\* #define MD5_LROTATE(a, b) (MD5_LSHIFT(a, b) | MD5_RSHIFT(a, 32 - (b)))
MD5_LROTATE(x, b) == OR(LSHIFT(x, b), RSHIFT(x, 32 - b))

\* SIG0 with a rotation of 8 where the code has 7
SIG0_rot8(x) == XOR(XOR(RROTATE(x, 8), RROTATE(x, 18)), RSHIFT(x, 3))

SIG0(x) == XOR(XOR(RROTATE(x, 7), RROTATE(x, 18)), RSHIFT(x, 3))
SIG1(x) == XOR(XOR(RROTATE(x, 17), RROTATE(x, 19)), RSHIFT(x, 10))

CHOISE(e, f, g)   == XOR(AND(e, f), AND(NOT(e), g))
MAJORITY(a, b, c) == XOR(XOR(AND(a, b), AND(a, c)), AND(b, c))

SUM0(x) == XOR(XOR(RROTATE(x, 2), RROTATE(x, 13)), RROTATE(x, 22))
SUM1(x) == XOR(XOR(RROTATE(x, 6), RROTATE(x, 11)), RROTATE(x, 25))

\* static const uint32_t k[64]
k ==
  << Word(\H428a, \H2f98), Word(\H7137, \H4491), Word(\Hb5c0, \Hfbcf), Word(\He9b5, \Hdba5),
     Word(\H3956, \Hc25b), Word(\H59f1, \H11f1), Word(\H923f, \H82a4), Word(\Hab1c, \H5ed5),
     Word(\Hd807, \Haa98), Word(\H1283, \H5b01), Word(\H2431, \H85be), Word(\H550c, \H7dc3),
     Word(\H72be, \H5d74), Word(\H80de, \Hb1fe), Word(\H9bdc, \H06a7), Word(\Hc19b, \Hf174),
     Word(\He49b, \H69c1), Word(\Hefbe, \H4786), Word(\H0fc1, \H9dc6), Word(\H240c, \Ha1cc),
     Word(\H2de9, \H2c6f), Word(\H4a74, \H84aa), Word(\H5cb0, \Ha9dc), Word(\H76f9, \H88da),
     Word(\H983e, \H5152), Word(\Ha831, \Hc66d), Word(\Hb003, \H27c8), Word(\Hbf59, \H7fc7),
     Word(\Hc6e0, \H0bf3), Word(\Hd5a7, \H9147), Word(\H06ca, \H6351), Word(\H1429, \H2967),
     Word(\H27b7, \H0a85), Word(\H2e1b, \H2138), Word(\H4d2c, \H6dfc), Word(\H5338, \H0d13),
     Word(\H650a, \H7354), Word(\H766a, \H0abb), Word(\H81c2, \Hc92e), Word(\H9272, \H2c85),
     Word(\Ha2bf, \He8a1), Word(\Ha81a, \H664b), Word(\Hc24b, \H8b70), Word(\Hc76c, \H51a3),
     Word(\Hd192, \He819), Word(\Hd699, \H0624), Word(\Hf40e, \H3585), Word(\H106a, \Ha070),
     Word(\H19a4, \Hc116), Word(\H1e37, \H6c08), Word(\H2748, \H774c), Word(\H34b0, \Hbcb5),
     Word(\H391c, \H0cb3), Word(\H4ed8, \Haa4a), Word(\H5b9c, \Hca4f), Word(\H682e, \H6ff3),
     Word(\H748f, \H82ee), Word(\H78a5, \H636f), Word(\H84c8, \H7814), Word(\H8cc7, \H0208),
     Word(\H90be, \Hfffa), Word(\Ha450, \H6ceb), Word(\Hbef9, \Ha3f7), Word(\Hc671, \H78f2) >>

(***************************************************************************)
(* sha256.c: the message schedule and the compression of one chunk         *)
(***************************************************************************)
\* w_create: w[0..15] is the chunk, w[16..63] follow the recurrence.
\* Sequences are 1-based: the C index i is the TLA+ index i + 1.
RECURSIVE w_extend(_)
w_extend(w) ==
  IF Len(w) = 64 THEN w
  ELSE LET index == Len(w)
           word1 == w[index - 16 + 1]
           word2 == SIG0(w[index - 15 + 1])
           word3 == w[index - 7 + 1]
           word4 == SIG1(w[index - 2 + 1])
       IN  w_extend(Append(w, ADD(ADD(ADD(word1, word2), word3), word4)))

w_create(chunk) == w_extend(chunk)

\* One pass of the loop body of hs_w_update (lines 118-134) on the working
\* variables r = <<a, b, c, d, e, f, g, h>>.
hs_round(r, w, index) ==
  LET a == r[1]
      b == r[2]
      c == r[3]
      d == r[4]
      e == r[5]
      f == r[6]
      g == r[7]
      h == r[8]
      majority == MAJORITY(a, b, c)
      choise   == CHOISE(e, f, g)
      sum0 == SUM0(a)
      sum1 == SUM1(e)
      t1 == ADD(ADD(ADD(ADD(h, sum1), choise), k[index + 1]), w[index + 1])
      t2 == ADD(sum0, majority)
  IN  << ADD(t1, t2), a, b, c, ADD(d, t1), e, f, g >>

\* uint32_t hs[8] of block_hash, lines 264-273
SHA256_IV ==
  << Word(\H6a09, \He667), Word(\Hbb67, \Hae85), Word(\H3c6e, \Hf372), Word(\Ha54f, \Hf53a),
     Word(\H510e, \H527f), Word(\H9b05, \H688c), Word(\H1f83, \Hd9ab), Word(\H5be0, \Hcd19) >>

\* hs_w_update, lines 138-145: hs[i] += working variable i
hs_add(hs, r) == [j \in 1..Len(hs) |-> ADD(hs[j], r[j])]

(***************************************************************************)
(* md5.h: the compression of one chunk                                     *)
(***************************************************************************)
\* #define MD5_LENDIAN(WORD): the four bytes of a word in reverse order
\* the two 16-bit halves exchanged, the bytes inside each left in place
MD5_LENDIAN_halves(x) == Word(x[2], x[1])

MD5_LENDIAN(x) ==
  OR(OR(AND(LSHIFT(x, 24), Word(\Hff00, \H0000)),
        AND(LSHIFT(x, 8),  Word(\H00ff, \H0000))),
     OR(AND(RSHIFT(x, 8),  Word(\H0000, \Hff00)),
        AND(RSHIFT(x, 24), Word(\H0000, \H00ff))))

\* static const uint32_t MD5_K[64]
MD5_K ==
  << Word(\Hd76a, \Ha478), Word(\He8c7, \Hb756), Word(\H2420, \H70db), Word(\Hc1bd, \Hceee),
     Word(\Hf57c, \H0faf), Word(\H4787, \Hc62a), Word(\Ha830, \H4613), Word(\Hfd46, \H9501),
     Word(\H6980, \H98d8), Word(\H8b44, \Hf7af), Word(\Hffff, \H5bb1), Word(\H895c, \Hd7be),
     Word(\H6b90, \H1122), Word(\Hfd98, \H7193), Word(\Ha679, \H438e), Word(\H49b4, \H0821),
     Word(\Hf61e, \H2562), Word(\Hc040, \Hb340), Word(\H265e, \H5a51), Word(\He9b6, \Hc7aa),
     Word(\Hd62f, \H105d), Word(\H0244, \H1453), Word(\Hd8a1, \He681), Word(\He7d3, \Hfbc8),
     Word(\H21e1, \Hcde6), Word(\Hc337, \H07d6), Word(\Hf4d5, \H0d87), Word(\H455a, \H14ed),
     Word(\Ha9e3, \He905), Word(\Hfcef, \Ha3f8), Word(\H676f, \H02d9), Word(\H8d2a, \H4c8a),
     Word(\Hfffa, \H3942), Word(\H8771, \Hf681), Word(\H6d9d, \H6122), Word(\Hfde5, \H380c),
     Word(\Ha4be, \Hea44), Word(\H4bde, \Hcfa9), Word(\Hf6bb, \H4b60), Word(\Hbebf, \Hbc70),
     Word(\H289b, \H7ec6), Word(\Heaa1, \H27fa), Word(\Hd4ef, \H3085), Word(\H0488, \H1d05),
     Word(\Hd9d4, \Hd039), Word(\He6db, \H99e5), Word(\H1fa2, \H7cf8), Word(\Hc4ac, \H5665),
     Word(\Hf429, \H2244), Word(\H432a, \Hff97), Word(\Hab94, \H23a7), Word(\Hfc93, \Ha039),
     Word(\H655b, \H59c3), Word(\H8f0c, \Hcc92), Word(\Hffef, \Hf47d), Word(\H8584, \H5dd1),
     Word(\H6fa8, \H7e4f), Word(\Hfe2c, \He6e0), Word(\Ha301, \H4314), Word(\H4e08, \H11a1),
     Word(\Hf753, \H7e82), Word(\Hbd3a, \Hf235), Word(\H2ad7, \Hd2bb), Word(\Heb86, \Hd391) >>

\* const uint8_t MD5_S[16]
MD5_S ==
  << 7, 12, 17, 22,
     5,  9, 14, 20,
     4, 11, 16, 23,
     6, 10, 15, 21 >>

\* the second group stepping through the chunk by 4 words instead of 5
md5_g_step4(i) ==
  IF i >= 0 /\ i < 16 THEN i
  ELSE IF i >= 16 /\ i < 32 THEN ((4 * i) + 1) % 16
  ELSE IF i >= 32 /\ i < 48 THEN ((3 * i) + 5) % 16
  ELSE (7 * i) % 16

\* uint8_t g of round i: the index of the chunk word the round reads
md5_g(i) ==
  IF i >= 0 /\ i < 16 THEN i
  ELSE IF i >= 16 /\ i < 32 THEN ((5 * i) + 1) % 16
  ELSE IF i >= 32 /\ i < 48 THEN ((3 * i) + 5) % 16
  ELSE (7 * i) % 16

\* the rotation table read by the round number within the group of 16
md5_si_mod16(i) == i % 16

\* uint8_t si = ((i >> 4) << 2) + (i & 0b11)
md5_si(i) == (((i \div 2^4) * 2^2) + BitAnd(i, 3)) % 256

\* uint32_t f of round i, before the additions
md5_f(i, b, c, d) ==
  IF i >= 0 /\ i < 16 THEN OR(AND(b, c), AND(NOT(b), d))
  ELSE IF i >= 16 /\ i < 32 THEN OR(AND(b, d), AND(c, NOT(d)))
  ELSE IF i >= 32 /\ i < 48 THEN XOR(XOR(b, c), d)
  ELSE XOR(c, OR(b, NOT(d)))

\* One pass of the loop body of md5_abcd_chunk_update (lines 123-154) on the
\* working variables r = <<a, b, c, d>>.
md5_round(r, chunk, i) ==
  LET a == r[1]
      b == r[2]
      c == r[3]
      d == r[4]
      g  == md5_g(i)
      si == md5_si(i)
      f  == ADD(md5_f(i, b, c, d), ADD(ADD(a, MD5_K[i + 1]), chunk[g + 1]))
  IN  << d, ADD(b, MD5_LROTATE(f, MD5_S[si + 1])), b, c >>

\* uint32_t abcd[4] of md5_block_hash
MD5_IV ==
  << Word(\H6745, \H2301), Word(\Hefcd, \Hab89), Word(\H98ba, \Hdcfe), Word(\H1032, \H5476) >>

(***************************************************************************)
(* The padding planner: CHUNKS / ZEROS of sha256.c, MD5_CHUNKS / MD5_ZEROS *)
(* of md5.h.  SIZE is a size_t; the model's sizes stay far below 2^64.     *)
(***************************************************************************)
\* INIT_CHUNKS as floor(size / 64), the remainder forgotten
INIT_CHUNKS_floor(SIZE) == SIZE \div 64

\* #define INIT_CHUNKS(SIZE) (((SIZE) & 0b111111) ? ((SIZE) >> 6) + 1 : (SIZE) >> 6)
INIT_CHUNKS(SIZE) ==
  IF BitAnd(SIZE, 63) # 0 THEN (SIZE \div 64) + 1 ELSE SIZE \div 64

\* #define EXTRA_CHUNK(SIZE) (((SIZE) & 0b111000) == 0b111000)
EXTRA_CHUNK(SIZE) == BitAnd(SIZE, 56) = 56

\* #define MOD_BITS(SIZE) (((SIZE) & 0b111111) * 8)
MOD_BITS(SIZE) == BitAnd(SIZE, 63) * 8

CHUNKS(SIZE) ==
  IF SIZE = 0 THEN 1
  ELSE IF EXTRA_CHUNK(SIZE) THEN INIT_CHUNKS(SIZE) + 1 ELSE INIT_CHUNKS(SIZE)

\* ZEROS without the extra-chunk case
ZEROS_no_extra(SIZE) ==
  IF SIZE = 0 THEN 448 ELSE 447 - MOD_BITS(SIZE)

ZEROS(SIZE) ==
  IF SIZE = 0 THEN 448
  ELSE IF EXTRA_CHUNK(SIZE) THEN 959 - MOD_BITS(SIZE) ELSE 447 - MOD_BITS(SIZE)

MD5_INITIAL_CHUNKS(SIZE) ==
  IF BitAnd(SIZE, 63) # 0 THEN (SIZE \div 64) + 1 ELSE SIZE \div 64

\* MD5_EXTRA_CHUNK without "the message already occupies a whole chunk"
MD5_EXTRA_CHUNK_no_whole(SIZE) == BitAnd(SIZE, 56) = 56

MD5_EXTRA_CHUNK(SIZE) == (BitAnd(SIZE, 56) = 56) \/ (BitAnd(SIZE, 63) = 0)

MD5_CHUNKS(SIZE) ==
  IF MD5_EXTRA_CHUNK(SIZE) THEN MD5_INITIAL_CHUNKS(SIZE) + 1
  ELSE MD5_INITIAL_CHUNKS(SIZE)

MD5_ZEROS(SIZE, chunks) == ((chunks * 64 - SIZE) * 8) - 64 - 1

\* the conversion of a planner result to the uint16_t local "zeros"
uint16(n) == n % Half

(***************************************************************************)
(* The block builder: BIT_SET / BIT_OFF, block_message_prepend and         *)
(* block_create of sha256.c, and their md5.h twins.  A block is a sequence *)
(* of uint32_t; bit BIT of the block is bit 31 - (BIT mod 32) of word      *)
(* BIT div 32.  Every write of a loop goes to the one word BIT >> 5, so a  *)
(* loop is applied word by word, each word taking the writes that hit it   *)
(* in the order the loop makes them.                                       *)
(***************************************************************************)
Min(a, b) == IF a < b THEN a ELSE b
Max(a, b) == IF a > b THEN a ELSE b

\* WORD_BIT counting from the least significant bit of the word
WORD_BIT_lsb(BIT) == BitAnd(BIT, 31)

\* #define WORD_BIT(BIT) (31 - ((BIT) & 0b11111))
WORD_BIT(BIT) == 31 - BitAnd(BIT, 31)

\* BIT_SET / BIT_OFF on the word BIT_WORD(WORDS, BIT)
WORD_SET(word, BIT) == OR(word, LSHIFT(Word(0, 1), WORD_BIT(BIT)))
WORD_OFF(word, BIT) == AND(word, NOT(LSHIFT(Word(0, 1), WORD_BIT(BIT))))

\* #define BIT_SET(WORDS, BIT): a write past the end of WORDS leaves WORDS as
\* it is (where it lands instead is what "oob" records).
BIT_SET(WORDS, BIT) ==
  IF BIT \div 32 < Len(WORDS)
  THEN [WORDS EXCEPT ![(BIT \div 32) + 1] = WORD_SET(@, BIT)]
  ELSE WORDS

\* word & LSHIFT(1, (7 - bit)) for word = ((char*) message)[index]
message_bit(message, index, bit) == BitAnd(message[index + 1], 2^(7 - bit)) # 0

\* The iterations of block_message_prepend that write bits from .. to - 1.
RECURSIVE message_bits_put(_, _, _, _)
message_bits_put(word, message, from, to) ==
  IF from >= to \/ ~IsWord(word) THEN word
  ELSE message_bits_put(
         IF message_bit(message, from \div 8, from % 8)
         THEN WORD_SET(word, from)
         ELSE WORD_OFF(word, from),
         message, from + 1, to)

block_message_prepend(block, message, size) ==
  [j \in 1..Len(block) |->
     message_bits_put(block[j], message, 32 * (j - 1), Min(32 * j, size * 8))]

\* The iterations of the zero loop of block_create that write bits from .. to - 1.
RECURSIVE zero_bits_put(_, _, _)
zero_bits_put(word, from, to) ==
  IF from >= to \/ ~IsWord(word) THEN word
  ELSE zero_bits_put(WORD_OFF(word, from), from + 1, to)

\* the zero loop left out: the bits keep what the memory held
block_zeros_skipped(block, zeros, size) == block

block_zeros(block, zeros, size) ==
  [j \in 1..Len(block) |->
     zero_bits_put(block[j], Max(32 * (j - 1), (size * 8) + 1),
                             Min(32 * j, (size * 8) + 1 + zeros))]

\* (uint32_t) of a uint64_t, and its upper half length >> 32
uint32(n)  == Word((n \div Half) % Half, n % Half)
high32(n)  == uint32((n \div Half) \div Half)

\* block_create of sha256.c
block_create(block, chunks, zeros, message, size) ==
  LET b1 == block_message_prepend(block, message, size)
      b2 == BIT_SET(b1, size * 8)
      b3 == block_zeros(b2, zeros, size)
      length == size * 8
  IN  [b3 EXCEPT ![(chunks * 16) - 2 + 1] = high32(length),
                 ![(chunks * 16) - 1 + 1] = uint32(length)]

\* md5_block_create without the endianness pass and with the length words
\* in the order of sha256
md5_block_create_be(block, chunks, zeros, message, size) ==
  block_create(block, chunks, zeros, message, size)

\* md5_block_create of md5.h
md5_block_create(block, chunks, zeros, message, size) ==
  LET b1 == block_message_prepend(block, message, size)
      b2 == BIT_SET(b1, size * 8)
      b3 == block_zeros(b2, zeros, size)
      b5 == [j \in 1..Len(b3) |->
               IF j - 1 < (chunks * 16) - 2 THEN MD5_LENDIAN(b3[j]) ELSE b3[j]]
      length == size * 8
  IN  [b5 EXCEPT ![(chunks * 16) - 1 + 1] = high32(length),
                 ![(chunks * 16) - 2 + 1] = uint32(length)]

\* The bit indices block_create / md5_block_create write with BIT_SET and
\* BIT_OFF: the message bits, the 1 bit and the zero bits.
written_bits(zeros, size) == 0 .. ((size * 8) + zeros)

\* Some write goes to a word past the end of a block of "words" words.
writes_outside(words, zeros, size) ==
  \E bit \in written_bits(zeros, size) : bit \div 32 >= words

(***************************************************************************)
(* The digest encoders: hs_hash of sha256.c and md5_abcd_hash of md5.h.    *)
(* A char is a one-character string; NUL is the terminator.                *)
(***************************************************************************)
NUL == "NUL"

HexChar == << "0", "1", "2", "3", "4", "5", "6", "7",
              "8", "9", "a", "b", "c", "d", "e", "f" >>

\* the hex digits of n without leading zeros
RECURSIVE hex(_)
hex(n) ==
  IF n < 16 THEN << HexChar[n + 1] >>
  ELSE hex(n \div 16) \o << HexChar[(n % 16) + 1] >>

RECURSIVE zero_pad(_, _)
zero_pad(s, width) ==
  IF Len(s) >= width THEN s ELSE zero_pad(<< "0" >> \o s, width)

\* "%x" where the code has "%08x": no leading zeros
sprintf_x(word) ==
  IF word[1] = 0 THEN hex(word[2]) ELSE hex(word[1]) \o zero_pad(hex(word[2]), 4)

\* the characters sprintf(.., "%08x", word) writes before its terminator
sprintf_08x(word) ==
  zero_pad(IF word[1] = 0 THEN hex(word[2])
           ELSE hex(word[1]) \o zero_pad(hex(word[2]), 4), 8)

\* sprintf(temp + offset, "%08x", word): the characters, then a terminator
sprintf_at(temp, offset, word) ==
  LET s == sprintf_08x(word) \o << NUL >>
  IN  [j \in 1..Len(temp) |->
         IF j > offset /\ j <= offset + Len(s) THEN s[j - offset] ELSE temp[j]]

\* strlen
strlen(s) ==
  IF \E j \in 1..Len(s) : s[j] = NUL
  THEN (CHOOSE j \in 1..Len(s) : s[j] = NUL /\ \A m \in 1..(j - 1) : s[m] # NUL) - 1
  ELSE Len(s)

\* strncpy(dst, src, n): the first n characters of dst are those of src up to
\* its terminator, then NUL
strncpy(dst, src, n) ==
  [j \in 1..Len(dst) |->
     IF j > n THEN dst[j]
     ELSE IF j <= strlen(src) THEN src[j] ELSE NUL]

\* the loop of hs_hash / md5_abcd_hash over the words printed so far
RECURSIVE sprintf_words(_, _, _)
sprintf_words(temp, words, index) ==
  IF index = Len(words) THEN temp
  ELSE sprintf_words(sprintf_at(temp, index * 8, words[index + 1]), words, index + 1)

\* char temp_hash[64 + 1] / char temp_hash[32 + 1], not initialised
temp_hash(n) == [j \in 1..(n + 1) |-> "?"]

\* the copy made with the size of temp_hash, terminator included
hs_hash_terminated(hash, hs) ==
  strncpy(hash, sprintf_words([j \in 1..65 |-> "?"], hs, 0), 65)

hs_hash(hash, hs) ==
  strncpy(hash, sprintf_words(temp_hash(64), hs, 0), 64)

md5_abcd_hash(hash, abcd) ==
  strncpy(hash,
          sprintf_words(temp_hash(32), [j \in 1..Len(abcd) |-> MD5_LENDIAN(abcd[j])], 0),
          32)

(***************************************************************************)
(* The hash invocations.  call[p] is the frame of invocation p of          *)
(* sha256() or md5(): its arguments, its locals (those of the functions it *)
(* calls included), its position pc, and the caller's hash buffer.         *)
(***************************************************************************)
VARIABLES
  call,     \* the frames of the invocations of sha256() and md5()
  main      \* the frame of the function of hashing.c that calls them

vars == << call, main >>

\* The bounds of the model
MaxLen  == 3      \* the full pipeline runs on every message length 0 .. MaxLen
MaxPack == 65     \* the block builder runs on every message length 0 .. MaxPack
MaxSize == 121    \* the planner runs on every size 0 .. MaxSize

\* char hash[64 + 1] of the *_hash_print functions, zeroed by memset
HashBufLen == 65

\* The invocations
Procs == { 1 }

Algorithms == { "sha256", "md5" }

\* The message bytes: two families, the first spelling "abc..." and the
\* second made of bytes with the top bit set.
Patterns == { "abc", "high" }

message_byte(pattern, index) ==
  IF pattern = "abc" THEN 97 + (index % 26)
  ELSE 128 + ((index * 37) % 128)

Message(pattern, size) == [j \in 1..size |-> message_byte(pattern, j - 1)]

\* The lengths of the messages that go through the full pipeline: the short
\* ones, and the lengths on both sides of the padding boundaries.
BoundaryLens == { 55, 56, 64 }

PipelineLens == (0..MaxLen) \cup BoundaryLens

\* What freshly obtained memory (the VLA of sha256, the malloc of md5) may
\* hold in every word: nothing the program has written.
Garbage == { Word(0, 0), Word(Half - 1, Half - 1) }

NewCall(alg, message) ==
  [ alg     |-> alg,
    message |-> message,
    size    |-> Len(message),
    pc      |-> "start",
    chunks  |-> 0,
    zeros   |-> 0,
    block   |-> << >>,
    oob     |-> FALSE,
    hs      |-> << >>,
    index   |-> 0,
    w       |-> << >>,
    r       |-> << >>,
    i       |-> 0,
    hash    |-> [j \in 1..HashBufLen |-> NUL],
    null_message |-> FALSE,     \* whether message is NULL
    null_block   |-> FALSE ]    \* whether no block buffer was obtained

\* The frame of hashing.c: args.algorithm, the position pc in the running
\* *_hash_print function, its locals and what it has printed so far.
NewMain(pc, algorithm, count) ==
  [ pc        |-> pc,
    algorithm |-> algorithm,
    count     |-> count,
    index     |-> 0,
    entry     |-> pc,
    file      |-> "",
    hash      |-> << >>,
    status    |-> 0,
    stdout    |-> << >> ]

\* sha256() or md5() called directly, by no function of hashing.c
no_main == NewMain("none", "sha256", 0)

Calls(lens) ==
  { NewCall(alg, Message(pattern, size)) :
      alg \in Algorithms, pattern \in Patterns, size \in lens }

Init ==
  /\ call \in [ Procs -> Calls(PipelineLens) ]
  /\ main = no_main

PackInit ==
  /\ call \in [ Procs -> Calls(0..MaxPack) ]
  /\ main = no_main

PlanInit ==
  /\ call \in [ Procs -> Calls(0..MaxSize) ]
  /\ main = no_main

\* the chunk block + (index * 16)
chunk_at(block, index) == [j \in 1..16 |-> block[(index * 16) + j]]

(***************************************************************************)
(* The steps of one invocation                                             *)
(***************************************************************************)
\* sha256() lines 298-299, md5() lines 306-307
sha256_plan(s) ==
  [s EXCEPT !.chunks = CHUNKS(s.size),
            !.zeros  = uint16(ZEROS(s.size)),
            !.pc     = "planned"]

md5_plan(s) ==
  LET chunks == MD5_CHUNKS(s.size)
  IN  [s EXCEPT !.chunks = chunks,
                !.zeros  = uint16(MD5_ZEROS(s.size, chunks)),
                !.pc     = "planned"]

Plan(p) ==
  /\ call[p].pc = "start"
  /\ call' = [call EXCEPT ![p] =
                IF @.alg = "sha256" THEN sha256_plan(@) ELSE md5_plan(@)]
  /\ UNCHANGED main

\* sha256() lines 301-303, md5() lines 309-311: the buffer of chunks * 16
\* words holds garbage when block_create starts.  A write past its end is
\* undefined: the invocation goes on with the buffer as the writes inside it
\* left it, or it is stopped.
pack(s, garbage, stopped) ==
  LET fresh == [j \in 1..(s.chunks * 16) |-> garbage]
      oob   == writes_outside(s.chunks * 16, s.zeros, s.size)
  IN  [s EXCEPT !.block = IF s.alg = "sha256"
                          THEN block_create(fresh, s.chunks, s.zeros, s.message, s.size)
                          ELSE md5_block_create(fresh, s.chunks, s.zeros, s.message, s.size),
                !.oob   = oob,
                !.pc    = IF oob /\ stopped THEN "crashed" ELSE "packed"]

\* whether the invocation may be stopped by its own writes
Outcomes(s) ==
  IF writes_outside(s.chunks * 16, s.zeros, s.size) THEN BOOLEAN ELSE { FALSE }

Pack(p) ==
  /\ call[p].pc = "planned"
  /\ ~call[p].null_message
  /\ \E garbage \in Garbage, stopped \in Outcomes(call[p]) :
       call' = [call EXCEPT ![p] = pack(@, garbage, stopped)]
  /\ UNCHANGED main

\* block_hash lines 264-273, md5_block_hash lines 276-281
hash_init(s) ==
  [s EXCEPT !.hs    = IF s.alg = "sha256" THEN SHA256_IV ELSE MD5_IV,
            !.index = 0,
            !.pc    = "chunk"]

HashInit(p) ==
  /\ call[p].pc = "packed"
  /\ call' = [call EXCEPT ![p] = hash_init(@)]
  /\ UNCHANGED main

\* hs_chunk_update: w_create, then the entry of hs_w_update (lines 106-113)
expand(s) ==
  [s EXCEPT !.w  = w_create(chunk_at(s.block, s.index)),
            !.r  = s.hs,
            !.i  = 0,
            !.pc = "round"]

Expand(p) ==
  /\ call[p].pc = "chunk"
  /\ call[p].alg = "sha256"
  /\ call[p].index < call[p].chunks
  /\ call' = [call EXCEPT ![p] = expand(@)]
  /\ UNCHANGED main

\* the entry of md5_abcd_chunk_update (lines 116-119)
md5_chunk_begin(s) ==
  [s EXCEPT !.r  = s.hs,
            !.i  = 0,
            !.pc = "round"]

Md5ChunkBegin(p) ==
  /\ call[p].pc = "chunk"
  /\ call[p].alg = "md5"
  /\ call[p].index < call[p].chunks
  /\ call' = [call EXCEPT ![p] = md5_chunk_begin(@)]
  /\ UNCHANGED main

\* the working variables kept in one static array that every invocation
\* uses: a round starts from what the first invocation left there
round_static(s) ==
  LET r == IF call[1].pc = "round" /\ call[1].alg = s.alg THEN call[1].r ELSE s.r
  IN  [s EXCEPT !.r = IF s.alg = "sha256"
                      THEN hs_round(r, s.w, s.i)
                      ELSE md5_round(r, chunk_at(s.block, s.index), s.i),
                !.i = s.i + 1]

\* one pass of the 64-round loop of hs_w_update / md5_abcd_chunk_update
round(s) ==
  [s EXCEPT !.r = IF s.alg = "sha256"
                  THEN hs_round(s.r, s.w, s.i)
                  ELSE md5_round(s.r, chunk_at(s.block, s.index), s.i),
            !.i = s.i + 1]

Round(p) ==
  /\ call[p].pc = "round"
  /\ call[p].i < 64
  /\ call' = [call EXCEPT ![p] = round(@)]
  /\ UNCHANGED main

\* the additions made to the initial vector instead of the state vector
chunk_end_from_iv(s) ==
  [s EXCEPT !.hs    = hs_add(IF s.alg = "sha256" THEN SHA256_IV ELSE MD5_IV, s.r),
            !.index = s.index + 1,
            !.pc    = "chunk"]

\* the end of hs_w_update / md5_abcd_chunk_update and the step of the chunk
\* loop of block_hash / md5_block_hash
chunk_end(s) ==
  [s EXCEPT !.hs    = hs_add(s.hs, s.r),
            !.index = s.index + 1,
            !.pc    = "chunk"]

ChunkEnd(p) ==
  /\ call[p].pc = "round"
  /\ call[p].i >= 64
  /\ call' = [call EXCEPT ![p] = chunk_end(@)]
  /\ UNCHANGED main

\* block_hash line 281, md5_block_hash line 289
encode(s) ==
  [s EXCEPT !.hash = IF s.alg = "sha256"
                     THEN hs_hash(s.hash, s.hs)
                     ELSE md5_abcd_hash(s.hash, s.hs),
            !.pc   = "encoded"]

Encode(p) ==
  /\ call[p].pc = "chunk"
  /\ call[p].index >= call[p].chunks
  /\ call' = [call EXCEPT ![p] = encode(@)]
  /\ UNCHANGED main

\* sha256() line 305, md5() lines 315-317: the block buffer is gone
return(s) ==
  [s EXCEPT !.block = << >>,
            !.pc    = "done"]

Return(p) ==
  /\ call[p].pc = "encoded"
  /\ call' = [call EXCEPT ![p] = return(@)]
  /\ UNCHANGED main

Next ==
  \E p \in Procs :
    \/ Plan(p)
    \/ Pack(p)
    \/ HashInit(p)
    \/ Expand(p)
    \/ Md5ChunkBegin(p)
    \/ Round(p)
    \/ ChunkEnd(p)
    \/ Encode(p)
    \/ Return(p)

Spec == Init /\ [][Next]_vars

\* The planner and the block builder alone, on every length up to MaxPack
PackNext ==
  \E p \in Procs :
    \/ Plan(p)
    \/ Pack(p)

PackSpec == PackInit /\ [][PackNext]_vars

\* The planner alone, on every size up to MaxSize
PlanNext == \E p \in Procs : Plan(p)

PlanSpec == PlanInit /\ [][PlanNext]_vars

(***************************************************************************)
(* Two invocations, one after the other, on messages one bit apart         *)
(***************************************************************************)
MaxFlip == 1      \* every bit of every message of 1 .. MaxFlip bytes is flipped

\* the first and the second invocation
Pair == { 1, 2 }

\* the message with bit number bit inverted, bit 0 being the most
\* significant bit of byte 0 (the order block_message_prepend reads them in)
flip(message, bit) ==
  LET at   == (bit \div 8) + 1
      mask == 2^(7 - (bit % 8))
  IN  [message EXCEPT ![at] = IF (@ \div mask) % 2 = 1 THEN @ - mask ELSE @ + mask]

\* The flipped bits: every bit of a short message; of a whole 64-byte chunk
\* the first and the last bit and the two bits around the start of byte 56,
\* where the length field of a block lies.
FlipBits(size) ==
  IF size <= MaxFlip THEN 0..((8 * size) - 1)
  ELSE { 0, 447, 448, (8 * size) - 1 }

FlipLens == (1..MaxFlip) \cup { 64 }

FlipInit ==
  /\ main = no_main
  /\ \E alg \in Algorithms, pattern \in Patterns, size \in FlipLens :
       \E bit \in FlipBits(size) :
         call = [p \in Pair |->
                   IF p = 1 THEN NewCall(alg, Message(pattern, size))
                   ELSE NewCall(alg, flip(Message(pattern, size), bit))]

\* whether invocation p has ended
ended(p) == call[p].pc \in { "done", "crashed" }

Step(p) ==
  \/ Plan(p)
  \/ Pack(p)
  \/ HashInit(p)
  \/ Expand(p)
  \/ Md5ChunkBegin(p)
  \/ Round(p)
  \/ ChunkEnd(p)
  \/ Encode(p)
  \/ Return(p)

\* the second invocation starts when the first has ended
FlipNext ==
  \/ \E p \in { 1 } : Step(p)
  \/ \E p \in { 2 } : ended(1) /\ Step(p)

FlipSpec == FlipInit /\ [][FlipNext]_vars

(***************************************************************************)
(* sha256() and md5() called with any buffer, with a message pointer that  *)
(* is NULL, and when no memory is left for the block buffer                *)
(***************************************************************************)
\* a hash buffer the caller has filled with something else than '\0'
filled_hash == [j \in 1..HashBufLen |-> "#"]

\* the lengths given with a NULL message
NullLens == { 1, 3 }

ApiCalls ==
  { [c EXCEPT !.hash = hash] :
      c \in Calls(0..MaxLen), hash \in { [j \in 1..HashBufLen |-> NUL], filled_hash } }
  \cup
  { [NewCall(alg, << >>) EXCEPT !.size = size, !.null_message = TRUE] :
      alg \in Algorithms, size \in NullLens }

ApiInit ==
  /\ call \in [ Procs -> ApiCalls ]
  /\ main = no_main

\* sha256() lines 301-303, md5() lines 309-311 when the buffer cannot be
\* obtained: malloc returns NULL and md5 does not look at it; the array of
\* sha256 lies beyond the end of the stack.  block_create writes through it
\* all the same, which is undefined: the invocation is stopped, or it goes
\* on and reads back whatever is there.
pack_no_memory(s, garbage, stopped) ==
  [s EXCEPT !.block      = [j \in 1..(s.chunks * 16) |-> garbage],
            !.null_block = TRUE,
            !.oob        = TRUE,
            !.pc         = IF stopped THEN "crashed" ELSE "packed"]

PackNoMemory(p) ==
  /\ call[p].pc = "planned"
  /\ \E garbage \in Garbage, stopped \in BOOLEAN :
       call' = [call EXCEPT ![p] = pack_no_memory(@, garbage, stopped)]
  /\ UNCHANGED main

\* block_message_prepend with message NULL and size > 0 reads size bytes
\* through NULL, which is undefined: the invocation is stopped, or it goes
\* on with whatever bytes the reads gave.
pack_null_message(s, garbage, bytes, stopped) ==
  IF stopped THEN [s EXCEPT !.oob = TRUE, !.pc = "crashed"]
  ELSE [pack([s EXCEPT !.message = bytes], garbage, FALSE) EXCEPT
          !.message = << >>, !.oob = TRUE]

PackNullMessage(p) ==
  /\ call[p].pc = "planned"
  /\ call[p].null_message
  /\ \E garbage \in Garbage, pattern \in Patterns, stopped \in BOOLEAN :
       call' = [call EXCEPT ![p] =
                  pack_null_message(@, garbage, Message(pattern, @.size), stopped)]
  /\ UNCHANGED main

ApiNext ==
  \E p \in Procs :
    \/ Step(p)
    \/ PackNoMemory(p)
    \/ PackNullMessage(p)

ApiSpec == ApiInit /\ [][ApiNext]_vars

(***************************************************************************)
(* Invocations running at the same time, their steps interleaved           *)
(***************************************************************************)
Threads == { 1, 2 }

\* the message of a thread: "abc" for the first, the empty one for the others
thread_message(p) == IF p = 1 THEN << 97, 98, 99 >> ELSE << >>

ConcInit ==
  /\ main = no_main
  /\ \E algs \in [Threads -> Algorithms] :
       call = [p \in Threads |-> NewCall(algs[p], thread_message(p))]

ConcNext == \E p \in Threads : Step(p)

ConcSpec == ConcInit /\ [][ConcNext]_vars

(***************************************************************************)
(* hashing.c: the functions that obtain a message, hash it and print       *)
(***************************************************************************)
MaxFiles == 3     \* file_hashes_print and files_hash_print get 0 .. MaxFiles files

\* args.algorithm: the default, the other supported one, one that is not
\* supported, and none
NoAlgorithm == "(null)"

Selectors == { "sha256", "md5", "sha1", NoAlgorithm }

\* The files: one of one byte, an empty one, and one that exists but cannot
\* be opened for reading.
Paths == { "a.txt", "empty.txt", "locked.txt" }

content(filepath) ==
  IF filepath = "empty.txt" THEN << >>
  ELSE IF filepath = "bc.txt" THEN << 98, 99 >>
  ELSE << 97 >>

fopen(filepath) == filepath # "locked.txt"

\* what stdin holds until its end
Stdins == { << >>, << 97 >>, << 97, 0, 98 >> }

file_size_get(filepath) ==
  IF ~fopen(filepath) THEN 0 ELSE Len(content(filepath))

\* the bytes file_read stores at pointer; their number is what it returns
file_read(size, filepath) ==
  IF ~fopen(filepath) THEN << >>
  ELSE SubSeq(content(filepath), 1, Min(size, Len(content(filepath))))

RECURSIVE files_size_get(_, _)
files_size_get(files, index) ==
  IF index > Len(files) THEN 0
  ELSE file_size_get(files[index]) + files_size_get(files, index + 1)

\* the bytes files_read stores at pointer, read being those stored so far
RECURSIVE files_read(_, _, _, _)
files_read(read, size, files, index) ==
  IF index > Len(files) THEN read
  ELSE LET file_size == file_size_get(files[index])
       IN  IF Len(read) + file_size > size
           THEN read \o file_read(size - Len(read), files[index])
           ELSE files_read(read \o file_read(file_size, files[index]),
                           size, files, index + 1)

\* message_input: the bytes before the first 0, the first byte equal to
\* (char) EOF, the end of stdin, or byte number size
RECURSIVE message_input(_, _, _)
message_input(stdin, length, size) ==
  IF length >= size \/ length >= Len(stdin) THEN length
  ELSE IF stdin[length + 1] \in { 0, 255 } THEN length
  ELSE message_input(stdin, length + 1, size)

\* printf("%s", s): the characters before the terminator
printf_s(s) == SubSeq(s, 1, strlen(s))

\* a line of stdout: the format and its arguments
Line(format, hash, file) == [ format |-> format, hash |-> hash, file |-> file ]

\* no invocation of sha256() or md5() is running
no_call == [NewCall("none", << >>) EXCEPT !.pc = "none"]

\* char hash[64 + 1]; memset(hash, '\0', sizeof(hash));
zeroed_hash == [j \in 1..HashBufLen |-> NUL]

\* the position of the caller of message_hash_create after it
print_of(entry) ==
  CASE entry = "file_hash_create"  -> "file_hash_print"
    [] entry = "files_hash_create" -> "files_hash_print"
    [] entry = "stdin_hash_create" -> "stdin_hash_print"

\* every selector but "md5" taken for "sha256"
message_hash_create_default(p, hash, message) ==
  /\ call' = [call EXCEPT ![p] =
                [NewCall(IF main.algorithm = "md5" THEN "md5" ELSE "sha256", message)
                   EXCEPT !.hash = hash]]
  /\ main' = [main EXCEPT !.hash = hash, !.pc = "message_hash_create"]

\* message_hash_create, up to its call of sha256() or md5(): status 0 at
\* once when the algorithm is absent or not supported, and then its caller
\* goes on
message_hash_create(p, hash, message) ==
  IF main.algorithm \in Algorithms
  THEN /\ call' = [call EXCEPT ![p] =
                     [NewCall(main.algorithm, message) EXCEPT !.hash = hash]]
       /\ main' = [main EXCEPT !.hash = hash, !.pc = "message_hash_create"]
  ELSE /\ main' = [main EXCEPT !.hash = hash, !.status = 0,
                               !.pc = print_of(main.entry)]
       /\ UNCHANGED call

\* file_hashes_print: the loop, and file_hash_print up to its call of
\* file_hash_create
FileHashesPrint(p) ==
  /\ main.pc = "file_hashes_print"
  /\ IF main.index < main.count
     THEN \E file \in Paths :
            main' = [main EXCEPT !.file = file,
                                 !.hash = zeroed_hash,
                                 !.entry = "file_hash_create",
                                 !.pc   = "file_hash_create"]
     ELSE main' = [main EXCEPT !.pc = "exit"]
  /\ UNCHANGED call

\* file_hash_create, up to the call of sha256() or md5(); malloc may
\* return NULL
FileHashCreate(p) ==
  /\ main.pc = "file_hash_create"
  /\ \E malloc \in BOOLEAN :
       LET file_size == file_size_get(main.file)
       IN  IF ~malloc
           THEN /\ main' = [main EXCEPT
                              !.stdout = Append(@, Line("Files are too large\n", << >>, "")),
                              !.status = 0,
                              !.pc     = "file_hash_print"]
                /\ UNCHANGED call
           ELSE message_hash_create(p, main.hash, file_read(file_size, main.file))

\* message_hash_create after sha256() or md5() returned, and the return of
\* its caller *_hash_create
MessageHashReturn(p) ==
  /\ main.pc = "message_hash_create"
  /\ call[p].pc = "done"
  /\ main' = [main EXCEPT !.hash   = call[p].hash,
                          !.status = IF call[p].alg = "sha256" THEN 1 ELSE 2,
                          !.pc     = print_of(main.entry)]
  /\ call' = [call EXCEPT ![p] = no_call]

\* file_hash_print after file_hash_create, and the step of the loop of
\* file_hashes_print
FileHashPrint(p) ==
  /\ main.pc = "file_hash_print"
  /\ main' = [main EXCEPT
                !.stdout = Append(@,
                   IF main.status = 0
                   THEN Line("hashing: Failed to create file hash\n", << >>, "")
                   ELSE Line("%s  %s\n", printf_s(main.hash), main.file)),
                !.index  = @ + 1,
                !.pc     = "file_hashes_print"]
  /\ UNCHANGED call

\* files_hash_print up to its call of files_hash_create, and
\* files_hash_create up to the call of sha256() or md5()
FilesHashCreate(p) ==
  /\ main.pc = "files_hash_create"
  /\ \E files \in [1..main.count -> Paths], malloc \in BOOLEAN :
       LET files_size == files_size_get(files, 1)
       IN  IF ~malloc
           THEN /\ main' = [main EXCEPT
                              !.stdout = Append(@, Line("Files are too large\n", << >>, "")),
                              !.hash   = zeroed_hash,
                              !.status = 0,
                              !.pc     = "files_hash_print"]
                /\ UNCHANGED call
           ELSE message_hash_create(p, zeroed_hash,
                                    files_read(<< >>, files_size, files, 1))

\* files_hash_print after files_hash_create
FilesHashPrint(p) ==
  /\ main.pc = "files_hash_print"
  /\ main' = [main EXCEPT
                !.stdout = Append(@,
                   IF main.status = 0
                   THEN Line("hashing: Failed to create files hash", << >>, "")
                   ELSE Line("%s\n", printf_s(main.hash), "")),
                !.pc     = "exit"]
  /\ UNCHANGED call

\* char message[1024] of stdin_hash_create
MessageBufLen == 1024

\* stdin_hash_print up to its call of stdin_hash_create, and
\* stdin_hash_create up to the call of sha256() or md5()
StdinHashCreate(p) ==
  /\ main.pc = "stdin_hash_create"
  /\ \E stdin \in Stdins :
       message_hash_create(p, zeroed_hash,
                           SubSeq(stdin, 1, message_input(stdin, 0, MessageBufLen)))

\* stdin_hash_print after stdin_hash_create
StdinHashPrint(p) ==
  /\ main.pc = "stdin_hash_print"
  /\ main' = [main EXCEPT
                !.stdout = Append(@,
                   IF main.status = 0
                   THEN Line("hashing: Failed to create stdin hash\n", << >>, "")
                   ELSE Line("%s  -\n", printf_s(main.hash), "")),
                !.pc     = "exit"]
  /\ UNCHANGED call

\* main() calls stdin_hash_print, files_hash_print or file_hashes_print
MainInit ==
  /\ call = [p \in Procs |-> no_call]
  /\ \/ \E algorithm \in Selectors, count \in 0..MaxFiles :
          main = NewMain("file_hashes_print", algorithm, count)
     \/ \E algorithm \in Selectors, count \in 0..MaxFiles :
          main = NewMain("files_hash_create", algorithm, count)
     \/ \E algorithm \in Selectors :
          main = NewMain("stdin_hash_create", algorithm, 0)

MainNext ==
  \E p \in Procs :
    \/ FileHashesPrint(p)
    \/ FileHashCreate(p)
    \/ FilesHashCreate(p)
    \/ StdinHashCreate(p)
    \/ Plan(p)
    \/ Pack(p)
    \/ HashInit(p)
    \/ Expand(p)
    \/ Md5ChunkBegin(p)
    \/ Round(p)
    \/ ChunkEnd(p)
    \/ Encode(p)
    \/ Return(p)
    \/ MessageHashReturn(p)
    \/ FileHashPrint(p)
    \/ FilesHashPrint(p)
    \/ StdinHashPrint(p)

MainSpec == MainInit /\ [][MainNext]_vars

(***************************************************************************)
(* What the claims speak of, stated without the code's macros              *)
(***************************************************************************)
\* the least n with n * b >= a
CeilDiv(a, b) == (a + b - 1) \div b

\* the frames at position pc of algorithm alg
At(p, alg, pc) == call[p].alg = alg /\ call[p].pc = pc

\* bit number bit of a block, counted from the most significant bit of word 0
BlockBit(block, bit) ==
  LET word == block[(bit \div 32) + 1]
      pos  == 31 - (bit % 32)
  IN  IF pos >= 16 THEN (word[1] \div 2^(pos - 16)) % 2
      ELSE (word[2] \div 2^pos) % 2

\* bit number bit of a message, each byte most significant bit first
MessageBit(message, bit) == (message[(bit \div 8) + 1] \div 2^(7 - (bit % 8))) % 2

\* byte n of the message followed by 0x80 and zero bytes
PaddedByte(message, n) ==
  IF n < Len(message) THEN message[n + 1]
  ELSE IF n = Len(message) THEN 128
  ELSE 0

\* the 32-bit word made of four bytes, b3 the most significant
BytesWord(b3, b2, b1, b0) == << (b3 * 256) + b2, (b1 * 256) + b0 >>

\* the low and the high 32 bits of the 64-bit value n
Low32(n)  == << (n \div 65536) % 65536, n % 65536 >>
High32(n) == Low32((n \div 65536) \div 65536)

(***************************************************************************)
(* C1 - C7: the padding planner and the block builder                      *)
(***************************************************************************)
\* C1 (as claimed): for every byte length L, the block count sha256 computes,
\* CHUNKS(L), is ceil((8 * L + 65) / 512), the least number of 512-bit blocks
\* that holds the message bits, the 1 bit and the 64-bit length.
C1_Sha256BlockCountMinimal ==
  \A p \in Procs :
    At(p, "sha256", "planned") =>
      call[p].chunks = CeilDiv((8 * call[p].size) + 65, 512)

\* The layout C2 describes, of a block of 512 * chunks bits for a message.
Sha256Layout(block, chunks, message) ==
  LET L == Len(message)
  IN  /\ Len(block) * 32 = 512 * chunks
      /\ (8 * L) + 1 + 64 <= 512 * chunks
      /\ \A bit \in 0..((8 * L) - 1) : BlockBit(block, bit) = MessageBit(message, bit)
      /\ BlockBit(block, 8 * L) = 1
      /\ \A bit \in ((8 * L) + 1)..((512 * chunks) - 65) : BlockBit(block, bit) = 0
      /\ block[(16 * chunks) - 1] = High32(8 * L)
      /\ block[16 * chunks] = Low32(8 * L)

\* C2 (as claimed): the block buffer sha256 hands to block_hash is 512 * C
\* bits long and holds, in order, the 8 * L message bits unmodified, one 1
\* bit, only 0 bits, and in its final two words the 64-bit big-endian value
\* 8 * L; no message bit is overwritten.
C2_Sha256BlockLayout ==
  \A p \in Procs :
    At(p, "sha256", "packed") =>
      Sha256Layout(call[p].block, call[p].chunks, call[p].message)

\* C3 (as claimed): for every byte length L, C = CHUNKS(L) and Z = ZEROS(L)
\* satisfy C * 512 = 8 * L + 1 + Z + 64, Z being the least number of 0 bits
\* that makes 8 * L + 1 + Z congruent to 448 mod 512.
C3_Sha256PaddingEquation ==
  \A p \in Procs :
    At(p, "sha256", "planned") =>
      /\ call[p].chunks * 512 = (8 * call[p].size) + 1 + call[p].zeros + 64
      /\ call[p].zeros \in 0..511

\* the block counts C4 claims for the boundary lengths
C4_ClaimedCount(L) ==
  CASE L = 0   -> 1
    [] L = 55  -> 2
    [] L = 56  -> 2
    [] L = 63  -> 2
    [] L = 64  -> 1
    [] L = 119 -> 2
    [] L = 120 -> 2

\* the block counts the planners produce for the boundary lengths
C4_ActualCount(alg, L) ==
  CASE L = 0   -> 1
    [] L = 55  -> 1
    [] L = 56  -> 2
    [] L = 63  -> 2
    [] L = 64  -> IF alg = "md5" THEN 2 ELSE 1
    [] L = 119 -> 2
    [] L = 120 -> 3

C4_Lengths == { 0, 55, 56, 63, 64, 119, 120 }

\* C4 (as claimed): for the byte lengths 0, 55, 56, 63, 64, 119 and 120 the
\* planner of each algorithm produces the block counts 1, 2, 2, 2, 1, 2, 2.
C4_BoundaryCountsClaimed ==
  \A p \in Procs :
    (call[p].pc = "planned" /\ call[p].size \in C4_Lengths) =>
      call[p].chunks = C4_ClaimedCount(call[p].size)

\* C4 (amended): for the byte lengths 0, 55, 56, 63, 64, 119 and 120,
\* MD5_CHUNKS produces the block counts 1, 1, 2, 2, 2, 2, 3 and CHUNKS of
\* sha256 produces 1, 1, 2, 2, 1, 2, 3.
C4_BoundaryCounts ==
  \A p \in Procs :
    (call[p].pc = "planned" /\ call[p].size \in C4_Lengths) =>
      call[p].chunks = C4_ActualCount(call[p].alg, call[p].size)

C4_Witness ==
  \E p \in Procs :
    /\ At(p, "md5", "planned")
    /\ call[p].size = 120
    /\ call[p].chunks = 3

\* the three-case formula of the Padding Planner, as <<C, Z>>
ThreeCase(L) ==
  LET mod == (8 * L) % 512
  IN  IF L = 0 THEN << 1, 448 >>
      ELSE IF mod > 447 THEN << CeilDiv(L, 64) + 1, 959 - mod >>
      ELSE << CeilDiv(L, 64), 447 - mod >>

\* C5 (as claimed): for every byte length L and both algorithms, the block
\* count and the zero-bit count the code uses are those of the three-case
\* formula, so sha256 and md5 plan the same C and Z.
C5_BothFollowThreeCase ==
  \A p \in Procs :
    call[p].pc = "planned" =>
      << call[p].chunks, call[p].zeros >> = ThreeCase(call[p].size)

\* C5 (amended): sha256 plans the C and Z of the three-case formula for
\* every L; md5 plans them for every L that is not a multiple of 64, and for
\* a multiple of 64 it plans C = L / 64 + 1 and Z = 447 (so the two
\* algorithms plan the same C and Z exactly when L is not a multiple of 64).
C5_ThreeCaseExceptMd5Multiples ==
  \A p \in Procs :
    call[p].pc = "planned" =>
      IF call[p].alg = "md5" /\ call[p].size % 64 = 0
      THEN /\ << call[p].chunks, call[p].zeros >> = << (call[p].size \div 64) + 1, 447 >>
           /\ << call[p].chunks, call[p].zeros >> # ThreeCase(call[p].size)
      ELSE << call[p].chunks, call[p].zeros >> = ThreeCase(call[p].size)

C5_Witness ==
  \E p \in Procs :
    /\ At(p, "md5", "planned")
    /\ call[p].size = 64
    /\ call[p].chunks = 2

\* C6: for every byte length L, md5 computes C = MD5_CHUNKS(L) =
\* ceil((8 * L + 65) / 512) and Z = MD5_ZEROS(L, C) with 0 <= Z <= 511 and
\* C * 512 = 8 * L + 1 + Z + 64.
C6_Md5StandardPadding ==
  \A p \in Procs :
    At(p, "md5", "planned") =>
      /\ call[p].chunks = CeilDiv((8 * call[p].size) + 65, 512)
      /\ call[p].zeros \in 0..511
      /\ call[p].chunks * 512 = (8 * call[p].size) + 1 + call[p].zeros + 64

C6_Witness ==
  \E p \in Procs :
    /\ At(p, "md5", "planned")
    /\ call[p].size = 64
    /\ call[p].zeros = 447

\* C7: the words md5 gives to compression are, for every word index
\* j < 16 * C - 2, the little-endian reading of bytes 4j .. 4j + 3 of the
\* message followed by the 1 bit and the zero bits; word 16 * C - 2 is the
\* low and word 16 * C - 1 the high 32 bits of 8 * L, not byte-reversed.
C7_Md5WordSequence ==
  \A p \in Procs :
    At(p, "md5", "packed") =>
      LET block == call[p].block
          C == call[p].chunks
          m == call[p].message
      IN  /\ Len(block) = 16 * C
          /\ \A j \in 0..((16 * C) - 3) :
               block[j + 1] = BytesWord(PaddedByte(m, (4 * j) + 3), PaddedByte(m, (4 * j) + 2),
                                        PaddedByte(m, (4 * j) + 1), PaddedByte(m, 4 * j))
          /\ block[(16 * C) - 2 + 1] = Low32(8 * Len(m))
          /\ block[(16 * C) - 1 + 1] = High32(8 * Len(m))

C7_Witness ==
  \E p \in Procs :
    /\ At(p, "md5", "packed")
    /\ call[p].size = 56
    /\ call[p].chunks = 2
    /\ call[p].message[1] = 128

(***************************************************************************)
(* C8 - C10: the digests                                                   *)
(***************************************************************************)
\* the characters of the hash buffer before its first NUL
Digest(p) == SubSeq(call[p].hash, 1, strlen(call[p].hash))

\* the message "abc"
Abc == << 97, 98, 99 >>

\* ba7816bf8f01cfea414140de5dae2223b00361a396177a9cb410ff61f20015ad
Sha256OfAbc ==
  << "b", "a", "7", "8", "1", "6", "b", "f", "8", "f", "0", "1", "c", "f", "e", "a",
     "4", "1", "4", "1", "4", "0", "d", "e", "5", "d", "a", "e", "2", "2", "2", "3",
     "b", "0", "0", "3", "6", "1", "a", "3", "9", "6", "1", "7", "7", "a", "9", "c",
     "b", "4", "1", "0", "f", "f", "6", "1", "f", "2", "0", "0", "1", "5", "a", "d" >>

\* d41d8cd98f00b204e9800998ecf8427e
Md5OfEmpty ==
  << "d", "4", "1", "d", "8", "c", "d", "9", "8", "f", "0", "0", "b", "2", "0", "4",
     "e", "9", "8", "0", "0", "9", "9", "8", "e", "c", "f", "8", "4", "2", "7", "e" >>

\* 900150983cd24fb0d6963f7d28e17f72
Md5OfAbc ==
  << "9", "0", "0", "1", "5", "0", "9", "8", "3", "c", "d", "2", "4", "f", "b", "0",
     "d", "6", "9", "6", "3", "f", "7", "d", "2", "8", "e", "1", "7", "f", "7", "2" >>

\* C8: sha256 of the 3-byte message "abc" is ba7816bf...f20015ad, md5 of the
\* empty message is d41d8cd9...ecf8427e and md5 of "abc" is
\* 90015098...28e17f72.
C8_TestVectors ==
  \A p \in Procs :
    /\ (At(p, "sha256", "done") /\ call[p].message = Abc) => Digest(p) = Sha256OfAbc
    /\ (At(p, "md5", "done") /\ call[p].message = << >>) => Digest(p) = Md5OfEmpty
    /\ (At(p, "md5", "done") /\ call[p].message = Abc) => Digest(p) = Md5OfAbc

C8_Witness ==
  \E p \in Procs :
    /\ At(p, "sha256", "done")
    /\ call[p].message = Abc
    /\ call[p].index = 1

\* e3b0c44298fc1c149afbf4c8996fb92427ae41e4649b934ca495991b7852b85,
\* the 63 characters C9 gives
Sha256OfEmptyClaimed ==
  << "e", "3", "b", "0", "c", "4", "4", "2", "9", "8", "f", "c", "1", "c", "1", "4",
     "9", "a", "f", "b", "f", "4", "c", "8", "9", "9", "6", "f", "b", "9", "2", "4",
     "2", "7", "a", "e", "4", "1", "e", "4", "6", "4", "9", "b", "9", "3", "4", "c",
     "a", "4", "9", "5", "9", "9", "1", "b", "7", "8", "5", "2", "b", "8", "5" >>

\* e3b0c44298fc1c149afbf4c8996fb92427ae41e4649b934ca495991b7852b855
Sha256OfEmpty ==
  << "e", "3", "b", "0", "c", "4", "4", "2", "9", "8", "f", "c", "1", "c", "1", "4",
     "9", "a", "f", "b", "f", "4", "c", "8", "9", "9", "6", "f", "b", "9", "2", "4",
     "2", "7", "a", "e", "4", "1", "e", "4", "6", "4", "9", "b", "9", "3", "4", "c",
     "a", "4", "9", "5", "9", "9", "1", "b", "7", "8", "5", "2", "b", "8", "5", "5" >>

\* C9 (as claimed): sha256 of the empty message yields the digest string
\* e3b0c442...7852b85 (63 characters).
C9_Sha256EmptyClaimed ==
  \A p \in Procs :
    (At(p, "sha256", "done") /\ call[p].size = 0) => Digest(p) = Sha256OfEmptyClaimed

\* C9 (amended): sha256 of the empty message yields the 64-character digest
\* string e3b0c442...7852b855, the claimed string with a final 5.
C9_Sha256Empty ==
  \A p \in Procs :
    (At(p, "sha256", "done") /\ call[p].size = 0) => Digest(p) = Sha256OfEmpty

C9_Witness ==
  \E p \in Procs :
    /\ At(p, "sha256", "done")
    /\ call[p].size = 0
    /\ call[p].chunks = 1
    /\ call[p].index = 1

\* the characters [0-9a-f]
LowerHex == { "0", "1", "2", "3", "4", "5", "6", "7", "8", "9",
              "a", "b", "c", "d", "e", "f" }

\* the number of characters of a digest of algorithm alg
DigestLen(alg) == IF alg = "sha256" THEN 64 ELSE 32

\* C10: for every message, the digest written by sha256 has exactly 64
\* characters and the digest written by md5 exactly 32, every one of them
\* in [0-9a-f].
C10_DigestShape ==
  \A p \in Procs :
    call[p].pc = "done" =>
      /\ Len(Digest(p)) = DigestLen(call[p].alg)
      /\ \A j \in 1..Len(Digest(p)) : Digest(p)[j] \in LowerHex

C10_Witness ==
  \E p \in Procs :
    /\ At(p, "md5", "done")
    /\ call[p].size = 56
    /\ call[p].index = 2
    /\ Len(Digest(p)) = 32

(***************************************************************************)
(* C11 - C20: invocations side by side, their order, their failures        *)
(***************************************************************************)
\* the number of bit positions in which two messages of equal length differ
BitDistance(m1, m2, bit) ==
  Cardinality({ b \in bit..((8 * Len(m1)) - 1) : MessageBit(m1, b) # MessageBit(m2, b) })

OneBitApart(m1, m2) == Len(m1) = Len(m2) /\ BitDistance(m1, m2, 0) = 1

\* C11 (as claimed): for each algorithm, for every message and every single
\* bit position inside the message, hashing the message with that one bit
\* flipped yields a digest different from the digest of the original message.
C11_BitFlipChangesDigest ==
  \A alg \in Algorithms :
    (At(1, alg, "done") /\ At(2, alg, "done")
       /\ OneBitApart(call[1].message, call[2].message)) =>
      call[1].hash # call[2].hash

\* the bytes file_hash_create hands to message_hash_create for a file
handed(filepath) == file_read(file_size_get(filepath), filepath)

\* the lines of stdout on which file_hash_print printed a digest
DigestLines == { n \in 1..Len(main.stdout) : main.stdout[n].format = "%s  %s\n" }

\* C12: the digest of (algorithm, bytes, length) is a function of those
\* three values only: whatever file_hashes_print hashed before and whatever
\* the memory of the block buffer held, two invocations on the same bytes
\* with the same algorithm print the same digest.
C12_SameMessageSameDigest ==
  \A n1, n2 \in DigestLines :
    handed(main.stdout[n1].file) = handed(main.stdout[n2].file) =>
      main.stdout[n1].hash = main.stdout[n2].hash

C12_Witness ==
  /\ Len(main.stdout) = 3
  /\ DigestLines = 1..3
  /\ main.stdout[1].file = "a.txt"
  /\ main.stdout[2].file = "empty.txt"
  /\ main.stdout[3].file = "a.txt"
  /\ main.stdout[1].hash = main.stdout[3].hash
  /\ main.stdout[1].hash # main.stdout[2].hash
  /\ Len(main.stdout[1].hash) \in { 32, 64 }

\* the digest a sequential run gives (C8, C9)
SequentialDigest(alg, message) ==
  CASE alg = "sha256" /\ message = Abc    -> Sha256OfAbc
    [] alg = "sha256" /\ message = << >>  -> Sha256OfEmpty
    [] alg = "md5"    /\ message = Abc    -> Md5OfAbc
    [] alg = "md5"    /\ message = << >>  -> Md5OfEmpty

\* C13: hash invocations on independent messages with separate output
\* buffers, their steps interleaved in any order, yield for each message
\* the digest a sequential run yields; a step of one invocation changes
\* nothing of another.
C13_ConcurrentAsSequential ==
  \A p \in Threads :
    call[p].pc = "done" =>
      Digest(p) = SequentialDigest(call[p].alg, call[p].message)

C13_Witness ==
  /\ At(1, "sha256", "done")
  /\ At(2, "sha256", "done")
  /\ Digest(1) = Sha256OfAbc
  /\ Digest(2) = Sha256OfEmpty

\* the initial vector of an algorithm
IV(alg) == IF alg = "sha256" THEN SHA256_IV ELSE MD5_IV

\* the digest string of a state vector
Encoding(alg, hs) ==
  IF alg = "sha256"
  THEN sprintf_08x(hs[1]) \o sprintf_08x(hs[2]) \o sprintf_08x(hs[3])
         \o sprintf_08x(hs[4]) \o sprintf_08x(hs[5]) \o sprintf_08x(hs[6])
         \o sprintf_08x(hs[7]) \o sprintf_08x(hs[8])
  ELSE sprintf_08x(MD5_LENDIAN(hs[1])) \o sprintf_08x(MD5_LENDIAN(hs[2]))
         \o sprintf_08x(MD5_LENDIAN(hs[3])) \o sprintf_08x(MD5_LENDIAN(hs[4]))

\* what C14 says of one step of an invocation, from frame s to frame t
StateVectorStep(s, t) ==
  \* the state vector is set to the IV once, before block 0
  /\ (s.pc = "packed" /\ t.pc = "chunk") => (t.hs = IV(s.alg) /\ t.index = 0)
  /\ (s.pc # "planned") => (t.pc # "packed")
  \* it changes only there and at the end of the compression of a block,
  \* where the block's result is added to it and the next block is index + 1
  /\ (t.hs # s.hs) =>
        \/ s.pc = "packed"
        \/ /\ s.pc = "round" /\ s.i = 64 /\ s.index < s.chunks
           /\ t.hs = hs_add(s.hs, s.r)
           /\ t.index = s.index + 1
  /\ (t.index # s.index) => (t.hs # s.hs \/ s.pc = "packed")
  \* the compression of block index starts from the state vector as it is
  /\ (s.pc = "chunk" /\ t.pc = "round") =>
        /\ s.index < s.chunks
        /\ t.r = s.hs /\ t.i = 0 /\ t.index = s.index
        /\ s.alg = "sha256" => t.w = w_create(chunk_at(s.block, s.index))
  \* the digest encodes the state vector after block chunks - 1
  /\ (s.pc = "chunk" /\ t.pc = "encoded") =>
        /\ s.index = s.chunks
        /\ t.hs = s.hs
        /\ SubSeq(t.hash, 1, DigestLen(s.alg)) = Encoding(s.alg, s.hs)

\* C14: within one invocation with C blocks the state vector is set to the
\* IV exactly once, before block 0; the compression is applied exactly C
\* times, to blocks 0 .. C - 1 in increasing order; the state block i
\* produces is the input state of block i + 1; the digest encodes the state
\* after block C - 1.
C14_StateVectorChain ==
  [][\A p \in Procs : StateVectorStep(call[p], call'[p])]_vars

\* SHA-256 of the 56 bytes "abcdefghijklmnopqrstuvwxyzabcd...", two blocks
Sha256Of56 ==
  << "7", "8", "4", "f", "6", "2", "3", "b", "7", "8", "7", "4", "9", "5", "0", "7",
     "8", "e", "9", "3", "f", "f", "2", "8", "a", "2", "5", "b", "5", "8", "1", "d",
     "f", "0", "5", "8", "4", "0", "5", "5", "a", "7", "e", "7", "1", "d", "8", "c",
     "d", "9", "0", "c", "4", "5", "4", "7", "1", "6", "b", "9", "2", "f", "5", "1" >>

C14_Witness ==
  \E p \in Procs :
    /\ At(p, "sha256", "done")
    /\ call[p].size = 56
    /\ call[p].message[1] = 97
    /\ call[p].chunks = 2
    /\ call[p].index = 2
    /\ Digest(p) = Sha256Of56

\* the steps of the pipeline Start, Planned, Packed, then per block Expand
\* and Compress, then Encoded, then Done, as changes of the position
PipelineOrder ==
  { << "start", "planned" >>, << "planned", "packed" >>, << "packed", "chunk" >>,
    << "chunk", "round" >>, << "round", "round" >>, << "round", "chunk" >>,
    << "chunk", "encoded" >>, << "encoded", "done" >> }

\* how far an invocation is: every step of the pipeline brings it nearer to
\* Done, which is at 5 + 66 * chunks
PipelineRank(s) ==
  CASE s.pc = "start"   -> 0
    [] s.pc = "planned" -> 1
    [] s.pc = "packed"  -> 2
    [] s.pc = "chunk"   -> 3 + (66 * s.index)
    [] s.pc = "round"   -> 4 + (66 * s.index) + s.i
    [] s.pc = "encoded" -> 4 + (66 * s.chunks)
    [] s.pc = "done"    -> 5 + (66 * s.chunks)
    [] OTHER            -> 0

PipelineStep(s, t) ==
  /\ << s.pc, t.pc >> \in PipelineOrder
  /\ PipelineRank(t) > PipelineRank(s)
  /\ t.pc # "planned" => PipelineRank(t) <= 5 + (66 * t.chunks)
  \* Planned: C and Z computed; Packed: the whole buffer built inside itself
  /\ t.pc = "packed" => (Len(t.block) = 16 * s.chunks /\ ~t.oob)
  \* a block is compressed after packing, in order, the last before encoding
  /\ t.pc = "round" => (t.index < t.chunks /\ Len(t.block) = 16 * t.chunks)
  /\ (s.pc = "round" /\ t.pc = "chunk") => (s.i = 64 /\ t.index = s.index + 1)
  /\ t.pc = "encoded" => t.index = t.chunks
  \* Expand, for SHA-256 only, before the rounds of a block
  /\ (s.pc = "chunk" /\ t.pc = "round") =>
        (t.i = 0 /\ (s.alg = "sha256" => Len(t.w) = 64))

\* C15 (as claimed): every invocation of sha256 or md5 follows the linear
\* pipeline Start, Planned, Packed, per block in order Expand (SHA-256 only)
\* then Compress, Encoded, Done: no compression before packing is complete,
\* encoding only after the last block, no phase repeated or skipped.  Every
\* step is the next step of that pipeline and brings the invocation nearer
\* to Done, so that Done is reached: no step leaves the pipeline.
C15_LinearPipeline ==
  [][\A p \in Procs : PipelineStep(call[p], call'[p])]_vars

\* the hash buffer as the caller handed it over: no digest written
NoDigestWritten(s) == s.hash \in { zeroed_hash, filled_hash }

\* C16 (as claimed): if the block buffer cannot be obtained, the invocation
\* ends in an AllocationFailure outcome: no bit is written through the
\* missing buffer, no compression step runs on the state vector, and no
\* digest is written to the output.
C16_AllocationFailureAborts ==
  \A p \in Procs :
    call[p].null_block =>
      /\ call[p].pc = "AllocationFailure"
      /\ ~call[p].oob
      /\ call[p].hs = << >>
      /\ NoDigestWritten(call[p])

\* C17 (as claimed): when the message pointer is NULL while the byte length
\* is nonzero, the invocation ends in an InvalidInput outcome that is
\* terminal: the message is never read and no digest is returned.
C17_NullMessageRejected ==
  \A p \in Procs :
    (call[p].null_message /\ call[p].size > 0) =>
      /\ call[p].pc \in { "start", "planned", "InvalidInput" }
      /\ ~call[p].oob
      /\ NoDigestWritten(call[p])

\* the positions right after a *_hash_create function returned its status
Printers == { "file_hash_print", "files_hash_print", "stdin_hash_print" }

\* the messages the *_hash_print functions print on status 0
FailureFormats ==
  { "hashing: Failed to create file hash\n",
    "hashing: Failed to create files hash",
    "hashing: Failed to create stdin hash\n" }

\* whether the caller's malloc failed, which ends *_hash_create with status
\* 0 before message_hash_create is called
TooLarge ==
  /\ Len(main.stdout) > 0
  /\ main.stdout[Len(main.stdout)].format = "Files are too large\n"

\* a digest of n characters, then the rest of the zeroed buffer
HoldsDigest(hash, n) ==
  /\ \A j \in 1..n : hash[j] \in LowerHex
  /\ \A j \in (n + 1)..HashBufLen : hash[j] = NUL

\* what C18 says of the status once message_hash_create has returned
StatusTellsTheDigest ==
  (main.pc \in Printers /\ ~TooLarge) =>
    /\ main.status = 0 <=> main.algorithm \notin { "sha256", "md5" }
    /\ main.status = 0 => main.hash = zeroed_hash
    /\ main.status = 1 <=> main.algorithm = "sha256"
    /\ main.status = 1 => HoldsDigest(main.hash, 64)
    /\ main.status = 2 <=> main.algorithm = "md5"
    /\ main.status = 2 => HoldsDigest(main.hash, 32)

\* what C18 says of a step: a hash computation starts only for a supported
\* selector, and on status 0 the caller prints its failure message and not
\* the hash buffer
StatusStep ==
  /\ \A p \in Procs :
       (call[p].pc = "none" /\ call'[p].pc # "none") =>
         (main.algorithm \in { "sha256", "md5" } /\ call'[p].alg = main.algorithm)
  /\ (main.pc \in Printers /\ main.status = 0) =>
        /\ Len(main'.stdout) = Len(main.stdout) + 1
        /\ main'.stdout[Len(main'.stdout)].format \in FailureFormats
        /\ main'.stdout[Len(main'.stdout)].hash = << >>
  /\ (main.pc \in Printers /\ main.status # 0) =>
        /\ main'.stdout[Len(main'.stdout)].format \notin FailureFormats
        /\ main'.stdout[Len(main'.stdout)].hash =
             SubSeq(main.hash, 1, IF main.status = 1 THEN 64 ELSE 32)

\* C18: message_hash_create returns 0 exactly when the algorithm selector is
\* absent or is neither "sha256" nor "md5", and then it starts no hash
\* computation and leaves the hash buffer unchanged; it returns 1 only after
\* computing a SHA-256 digest and 2 only after computing an MD5 digest; on
\* status 0 stdin_hash_print, file_hash_print and files_hash_print print a
\* failure message and never the hash buffer.
C18_StatusAndFailureMessage ==
  /\ []StatusTellsTheDigest
  /\ [][StatusStep]_vars

C18_Witness ==
  /\ main.pc = "exit"
  /\ main.entry = "stdin_hash_create"
  /\ main.algorithm = "sha1"
  /\ main.status = 0
  /\ main.hash = zeroed_hash
  /\ Len(main.stdout) = 1
  /\ main.stdout[1].format = "hashing: Failed to create stdin hash\n"

\* C19 (as claimed): no failure is swallowed on the file path: whenever a
\* file handed to file_hash_print cannot be opened or read, file_hash_create
\* reports failure (status 0) and no digest line is printed for that file;
\* the digest of the empty message is never printed for such a file.
C19_UnreadableFileFails ==
  /\ (main.pc = "file_hash_print" /\ ~fopen(main.file)) => main.status = 0
  /\ \A n \in DigestLines : fopen(main.stdout[n].file)

\* what C20 says of one step of an invocation, from frame s to frame t
FrameStep(s, t) ==
  \* no byte beyond the digest changes, a terminator is not written
  /\ \A j \in (DigestLen(s.alg) + 1)..HashBufLen : t.hash[j] = s.hash[j]
  \* the buffer is written by the encoding alone, every byte of the digest
  /\ (s.pc = "chunk" /\ t.pc = "encoded") =>
        \A j \in 1..DigestLen(s.alg) : t.hash[j] \in LowerHex
  /\ ~(s.pc = "chunk" /\ t.pc = "encoded") => t.hash = s.hash

\* C20: sha256 modifies exactly the 64 bytes hash[0..63] and md5 exactly the
\* 32 bytes hash[0..31]; neither writes a terminator, so every byte of the
\* caller's buffer beyond the digest is left unchanged.
C20_HashFrame ==
  [][\A p \in Procs : FrameStep(call[p], call'[p])]_vars

C20_Witness ==
  \E p \in Procs :
    /\ At(p, "md5", "done")
    /\ ~call[p].oob
    /\ call[p].size = 3
    /\ \A j \in 1..32 : call[p].hash[j] \in LowerHex
    /\ \A j \in 33..HashBufLen : call[p].hash[j] = "#"

(***************************************************************************)
(* C21 - C28: bounds of the writes, the arithmetic, the tables, the files  *)
(***************************************************************************)
\* C21 (as claimed): for every byte length L and both algorithms, every word
\* index written while the block is built (the message bits, the 1 bit at
\* bit 8 * L, the Z zero bits, the endianness pass, the two length words)
\* lies inside the buffer of 16 * C words: every written bit index is below
\* 512 * C.
C21_WritesInsideBuffer ==
  \A p \in Procs :
    call[p].pc \in { "packed", "crashed" } =>
      /\ \A bit \in written_bits(call[p].zeros, call[p].size) :
           bit < 512 * call[p].chunks
      /\ (16 * call[p].chunks) - 2 >= 0
      /\ ~call[p].oob

\* bit n of a 32-bit word, bit 0 the least significant
BitOf(x, n) ==
  IF n < 16 THEN (x[2] \div 2^n) % 2 ELSE (x[1] \div 2^(n - 16)) % 2

\* the number whose 16 bits are f[from] .. f[from + 15]
RECURSIVE BitSum(_, _, _)
BitSum(f, from, n) ==
  IF n = 16 THEN 0 ELSE (f[from + n] * 2^n) + BitSum(f, from, n + 1)

\* the 32-bit word whose bit n is f[n]
WordOf(f) == << BitSum(f, 16, 0), BitSum(f, 0, 0) >>

\* the functions of SHA-256 (FIPS 180-4), bit by bit
RotR(x, n, by) == BitOf(x, (n + by) % 32)
ShR(x, n, by)  == IF n + by <= 31 THEN BitOf(x, n + by) ELSE 0

Sigma0(x) == WordOf([n \in 0..31 |-> (RotR(x, n, 7) + RotR(x, n, 18) + ShR(x, n, 3)) % 2])
Sigma1(x) == WordOf([n \in 0..31 |-> (RotR(x, n, 17) + RotR(x, n, 19) + ShR(x, n, 10)) % 2])
BigSigma0(x) ==
  WordOf([n \in 0..31 |-> (RotR(x, n, 2) + RotR(x, n, 13) + RotR(x, n, 22)) % 2])
BigSigma1(x) ==
  WordOf([n \in 0..31 |-> (RotR(x, n, 6) + RotR(x, n, 11) + RotR(x, n, 25)) % 2])
Ch(x, y, z) ==
  WordOf([n \in 0..31 |-> IF BitOf(x, n) = 1 THEN BitOf(y, n) ELSE BitOf(z, n)])
Maj(x, y, z) ==
  WordOf([n \in 0..31 |-> IF BitOf(x, n) + BitOf(y, n) + BitOf(z, n) >= 2 THEN 1 ELSE 0])

\* the sum of at most five 32-bit words modulo 2^32
RECURSIVE HalfSum(_, _, _)
HalfSum(words, half, n) ==
  IF n > Len(words) THEN 0 ELSE words[n][half] + HalfSum(words, half, n + 1)

SumMod32(words) ==
  LET lo == HalfSum(words, 2, 1)
      hi == HalfSum(words, 1, 1) + (lo \div 65536)
  IN  << hi % 65536, lo % 65536 >>

\* the message schedule of the claim: w[0..15] the block words, then the
\* recurrence
ScheduleOf(w, chunk) ==
  /\ Len(w) = 64
  /\ \A n \in 0..15 : w[n + 1] = chunk[n + 1]
  /\ \A n \in 16..63 :
       w[n + 1] = SumMod32(<< Sigma1(w[n - 2 + 1]), w[n - 7 + 1],
                             Sigma0(w[n - 15 + 1]), w[n - 16 + 1] >>)

\* the registers after one round on <<a, b, c, d, e, f, g, h>>
RoundOf(r, kt, wt) ==
  LET T1 == SumMod32(<< r[8], BigSigma1(r[5]), Ch(r[5], r[6], r[7]), kt, wt >>)
      T2 == SumMod32(<< BigSigma0(r[1]), Maj(r[1], r[2], r[3]) >>)
  IN  << SumMod32(<< T1, T2 >>), r[1], r[2], r[3],
         SumMod32(<< r[4], T1 >>), r[5], r[6], r[7] >>

\* every value of the SHA-256 core is a 32-bit word, and the schedule is
\* that of the claim
Sha256Words(s) ==
  /\ \A j \in 1..Len(s.hs) : IsWord(s.hs[j])
  /\ \A j \in 1..Len(s.r) : IsWord(s.r[j])
  /\ \A j \in 1..Len(s.w) : IsWord(s.w[j])
  /\ (s.pc = "round" /\ s.i = 0) => ScheduleOf(s.w, chunk_at(s.block, s.index))

\* one step of the SHA-256 core, from frame s to frame t
Sha256Step(s, t) ==
  /\ (s.pc = "chunk" /\ t.pc = "round") => (t.r = s.hs /\ t.i = 0)
  /\ (s.pc = "round" /\ t.pc = "round") =>
        /\ s.i < 64 /\ t.i = s.i + 1 /\ t.w = s.w
        /\ t.r = RoundOf(s.r, k[s.i + 1], s.w[s.i + 1])
  /\ (s.pc = "round" /\ t.pc = "chunk") =>
        /\ s.i = 64
        /\ Len(t.hs) = 8
        /\ \A j \in 1..8 : t.hs[j] = SumMod32(<< s.hs[j], s.r[j] >>)

\* C22: in the SHA-256 core all values stay 32-bit words and all additions
\* wrap modulo 2^32: w[0..15] are the block words and for t in 16..63
\* w[t] = (sigma1(w[t-2]) + w[t-7] + sigma0(w[t-15]) + w[t-16]) mod 2^32;
\* hs_w_update returns for each of the 8 state words (old state word +
\* final working register) mod 2^32 after exactly 64 rounds of h <- g,
\* g <- f, f <- e, e <- d + T1, d <- c, c <- b, b <- a, a <- T1 + T2.
C22_Sha256Arithmetic ==
  /\ [](\A p \in Procs : call[p].alg = "sha256" => Sha256Words(call[p]))
  /\ [][\A p \in Procs :
          call[p].alg = "sha256" => Sha256Step(call[p], call'[p])]_vars

\* an addition has wrapped: the second state word after the block of "abc"
\* is below the one before it
C22_Witness ==
  \E p \in Procs :
    /\ At(p, "sha256", "chunk")
    /\ call[p].message = Abc
    /\ call[p].index = 1
    /\ call[p].i = 64
    /\ call[p].hs[2][1] < SHA256_IV[2][1]
    /\ call[p].hs[2] = SumMod32(<< SHA256_IV[2], call[p].r[2] >>)

\* the functions of MD5 (RFC 1321), bit by bit
RotL(x, n, by) == BitOf(x, (n + 32 - by) % 32)

Md5F(i, x, y, z) ==
  WordOf([n \in 0..31 |->
    LET xn == BitOf(x, n)
        yn == BitOf(y, n)
        zn == BitOf(z, n)
    IN  CASE i \div 16 = 0 -> IF xn = 1 THEN yn ELSE zn
          [] i \div 16 = 1 -> IF zn = 1 THEN xn ELSE yn
          [] i \div 16 = 2 -> (xn + yn + zn) % 2
          [] OTHER -> (yn + (IF xn = 1 \/ zn = 0 THEN 1 ELSE 0)) % 2])

\* the working variables <<a, b, c, d>> after round i that reads chunk word
\* g and rotates by amount
Md5RoundOf(r, chunk, i, g, amount) ==
  LET T   == SumMod32(<< Md5F(i, r[2], r[3], r[4]), r[1], MD5_K[i + 1], chunk[g + 1] >>)
      rot == WordOf([n \in 0..31 |-> RotL(T, n, amount)])
  IN  << r[4], SumMod32(<< r[2], rot >>), r[2], r[3] >>

\* the row of the rotation table of a group of 16 rounds
MD5_S_row(group) == SubSeq(MD5_S, (4 * group) + 1, (4 * group) + 4)

\* the rounds of the group of round i that have rotated by that amount
SameAmount(i, amount) ==
  { j \in (16 * (i \div 16))..((16 * (i \div 16)) + 15) :
      MD5_S[md5_si(j) + 1] = amount }

Md5Rotation(s) ==
  (s.pc = "round" /\ s.i < 64) =>
    /\ md5_si(s.i) \in 0..15
    /\ md5_si(s.i) = (4 * (s.i \div 16)) + (s.i % 4)
    /\ \A j \in (16 * (s.i \div 16))..((16 * (s.i \div 16)) + 15) :
         \E n \in 1..4 : MD5_S[md5_si(j) + 1] = MD5_S_row(s.i \div 16)[n]
    /\ SameAmount(s.i, MD5_S[md5_si(s.i) + 1])
         = { j \in (16 * (s.i \div 16))..((16 * (s.i \div 16)) + 15) : j % 4 = s.i % 4 }

Md5RotationStep(s, t) ==
  (s.pc = "round" /\ t.pc = "round") =>
    t.r = Md5RoundOf(s.r, chunk_at(s.block, s.index), s.i, md5_g(s.i),
                     MD5_S_row(s.i \div 16)[(s.i % 4) + 1])

\* C23: in every MD5 round i in 0..63 the rotation amount is
\* MD5_S[4 * (i div 16) + (i mod 4)]: the index ((i >> 4) << 2) + (i & 3) is
\* in 0..15, and within each group of 16 rounds only the 4 amounts of the
\* group's table row are used, each for the 4 rounds with the same i mod 4.
C23_Md5RotationAmount ==
  /\ [](\A p \in Procs : call[p].alg = "md5" => Md5Rotation(call[p]))
  /\ [][\A p \in Procs :
          call[p].alg = "md5" => Md5RotationStep(call[p], call'[p])]_vars

\* round 21 is done: the second row, selected by 21 mod 4 and not by 21
\* mod 16, rotated by 9
C23_Witness ==
  \E p \in Procs :
    /\ At(p, "md5", "round")
    /\ call[p].i = 22
    /\ md5_si(21) = 5
    /\ MD5_S[md5_si(21) + 1] = 9

\* the rounds of group n (0..3) of the 64 rounds
Md5Group(n) == (16 * n)..((16 * n) + 15)

\* the rounds of a set that read chunk word n
Md5Readers(rounds, n) == { j \in rounds : md5_g(j) = n }

Md5WordIndex(s) ==
  /\ (s.pc = "round" /\ s.i < 64) =>
        /\ md5_g(s.i) \in 0..15
        /\ \A j \in Md5Group(s.i \div 16) : j < s.i => md5_g(j) # md5_g(s.i)
  /\ (s.pc = "round" /\ s.i > 0 /\ s.i % 16 = 0) =>
        \A n \in 0..15 :
          /\ Cardinality(Md5Readers(Md5Group((s.i \div 16) - 1), n)) = 1
          /\ Cardinality(Md5Readers(0..(s.i - 1), n)) = s.i \div 16

Md5WordStep(s, t) ==
  (s.pc = "round" /\ t.pc = "round") =>
    \E g \in 0..15 :
      /\ g = md5_g(s.i)
      /\ t.r = Md5RoundOf(s.r, chunk_at(s.block, s.index), s.i, g,
                          MD5_S[md5_si(s.i) + 1])

\* C24: in md5_abcd_chunk_update the message word index g is in 0..15 in
\* every round, and within each of the four groups of 16 rounds the 16
\* values of g are pairwise distinct: each of the 16 block words is consumed
\* exactly once per group and exactly 4 times per block.
C24_Md5WordIndex ==
  /\ [](\A p \in Procs : call[p].alg = "md5" => Md5WordIndex(call[p]))
  /\ [][\A p \in Procs :
          call[p].alg = "md5" => Md5WordStep(call[p], call'[p])]_vars

\* all 64 rounds of a block are done, and the groups read the words in
\* different orders
C24_Witness ==
  \E p \in Procs :
    /\ At(p, "md5", "round")
    /\ call[p].i = 64
    /\ << md5_g(1), md5_g(17), md5_g(33), md5_g(49) >> = << 1, 6, 8, 7 >>
    /\ \A n \in 0..15 : Cardinality(Md5Readers(0..63, n)) = 4

\* nibble n of a 32-bit word, nibble 0 the least significant
NibbleOf(x, n) ==
  IF n < 4 THEN (x[2] \div 16^n) % 16 ELSE (x[1] \div 16^(n - 4)) % 16

\* the 8 lowercase hex digits of a word, most significant nibble first
Hex8(x) == [n \in 1..8 |-> HexChar[NibbleOf(x, 8 - n) + 1]]

\* the word with its 4 bytes in the opposite order
ByteSwap(x) ==
  << ((x[2] % 256) * 256) + (x[2] \div 256), ((x[1] % 256) * 256) + (x[1] \div 256) >>

\* the value of a hex digit
HexValue(c) == (CHOOSE n \in 1..16 : HexChar[n] = c) - 1

\* the number written by 4 hex digits
ParseHalf(s) ==
  (HexValue(s[1]) * 4096) + (HexValue(s[2]) * 256) + (HexValue(s[3]) * 16) + HexValue(s[4])

\* the word written by characters 8j .. 8j + 7 of a digest
ParseWord(digest, j) ==
  << ParseHalf(SubSeq(digest, (8 * j) + 1, (8 * j) + 4)),
     ParseHalf(SubSeq(digest, (8 * j) + 5, (8 * j) + 8)) >>

\* the state vector a digest is parsed back to
ParseDigest(alg, digest) ==
  [j \in 1..(Len(digest) \div 8) |->
     IF alg = "sha256" THEN ParseWord(digest, j - 1)
     ELSE ByteSwap(ParseWord(digest, j - 1))]

\* C25: the digest encoders are lossless and ordered: for sha256 digest
\* characters 8j .. 8j+7 are the 8-digit lowercase hex of state word j (most
\* significant nibble first), j in 0..7; for md5 they are the 8-digit hex of
\* the byte-swapped state word j, j in 0..3; parsing the digest back (the
\* byte swap undone for md5) recovers the final state vector exactly.
C25_EncodersLossless ==
  \A p \in Procs :
    call[p].pc \in { "encoded", "done" } =>
      LET digest == SubSeq(call[p].hash, 1, DigestLen(call[p].alg))
          words  == DigestLen(call[p].alg) \div 8
      IN  /\ Len(call[p].hs) = words
          /\ \A j \in 0..(words - 1) :
               SubSeq(digest, (8 * j) + 1, (8 * j) + 8)
                 = IF call[p].alg = "sha256" THEN Hex8(call[p].hs[j + 1])
                   ELSE Hex8(ByteSwap(call[p].hs[j + 1]))
          /\ ParseDigest(call[p].alg, digest) = call[p].hs

\* md5 of the empty message, d41d8cd9 8f00b204 e9800998 ecf8427e: the first
\* state word is d98c1dd4
C25_Witness ==
  \E p \in Procs :
    /\ At(p, "md5", "encoded")
    /\ call[p].size = 0
    /\ call[p].hs[1] = << 55692, 7636 >>
    /\ SubSeq(call[p].hash, 1, 8) = << "d", "4", "1", "d", "8", "c", "d", "9" >>
    /\ ParseDigest("md5", SubSeq(call[p].hash, 1, 32)) = call[p].hs

(***************************************************************************)
(* file.h: files_read, one file of the list at a time.  main is the frame  *)
(* of files_read: its arguments, its locals and the buffer at pointer.     *)
(***************************************************************************)
MaxRead == 6      \* files_read gets a buffer of 0 .. MaxRead bytes

\* What a file may hold when file_read opens it, file_size_get having seen
\* content(filepath): the same bytes, one byte more, or one byte less.
Versions(filepath) ==
  { content(filepath), content(filepath) \o << 122 >> }
    \cup (IF Len(content(filepath)) > 0
          THEN { SubSeq(content(filepath), 1, Len(content(filepath)) - 1) }
          ELSE { })

\* file_read(pointer + read_size, size, filepath) on a file that holds now:
\* the bytes fread stores
file_read_now(size, filepath, now) ==
  IF ~fopen(filepath) THEN << >> ELSE SubSeq(now, 1, Min(size, Len(now)))

\* the whole file asked for, whatever is left of the buffer
read_count_whole(read_size, file_size, size) == file_size

\* the size files_read passes to file_read (lines 763-770)
read_count(read_size, file_size, size) ==
  IF read_size + file_size > size THEN size - read_size ELSE file_size

NewRead(files, size, null) ==
  [ pc        |-> "files_read",
    files     |-> files,
    count     |-> Len(files),
    size      |-> size,
    null      |-> null,
    pointer   |-> [j \in 1..size |-> -1],    \* -1: nothing stored in the byte
    past      |-> << >>,
    index     |-> 0,
    read_size |-> 0,
    result    |-> 0 ]

ReadInit ==
  /\ call = [p \in Procs |-> no_call]
  /\ \E count \in 0..MaxFiles :
       \E files \in [1..count -> Paths \cup { "bc.txt" }], size \in 0..MaxRead, null \in BOOLEAN :
         main = NewRead(files, size, null)

\* if (!pointer || !files) return 0; size_t read_size = 0;
FilesReadBegin ==
  /\ main.pc = "files_read"
  /\ main' = [main EXCEPT !.pc = IF main.null THEN "returned" ELSE "loop",
                           !.result = 0]
  /\ UNCHANGED call

\* One pass of the loop of files_read over files[index].  The bytes are
\* stored at pointer + read_size: those that fall inside the buffer go to
\* pointer, those that fall past its end to past.
FileRead ==
  /\ main.pc = "loop"
  /\ main.index < main.count
  /\ \E now \in Versions(main.files[main.index + 1]) :
       LET filepath  == main.files[main.index + 1]
           file_size == file_size_get(filepath)
           bytes     == file_read_now(read_count(main.read_size, file_size, main.size),
                                      filepath, now)
           last      == main.read_size + file_size > main.size
       IN  main' = [main EXCEPT
                      !.pointer   = [j \in 1..main.size |->
                                       IF j > main.read_size /\ j <= main.read_size + Len(bytes)
                                       THEN bytes[j - main.read_size] ELSE @[j]],
                      !.past      = @ \o SubSeq(bytes, Max(main.size - main.read_size, 0) + 1,
                                                Len(bytes)),
                      !.read_size = @ + Len(bytes),
                      !.index     = IF last THEN @ ELSE @ + 1,
                      !.pc        = IF last THEN "break" ELSE "loop"]
  /\ UNCHANGED call

\* return read_size;
FilesReadReturn ==
  /\ \/ main.pc = "break"
     \/ main.pc = "loop" /\ main.index >= main.count
  /\ main' = [main EXCEPT !.pc = "returned", !.result = main.read_size]
  /\ UNCHANGED call

ReadNext ==
  \/ FilesReadBegin
  \/ FileRead
  \/ FilesReadReturn

ReadSpec == ReadInit /\ [][ReadNext]_vars

\* the bytes of the buffer that something was stored in
Stored(pointer) == { j \in 1..Len(pointer) : pointer[j] # -1 }

ReadBounded(m) ==
  /\ m.read_size <= m.size
  /\ m.past = << >>
  /\ Stored(m.pointer) = 1..m.read_size
  /\ m.pc = "returned" => m.result = m.read_size
  /\ m.null => m.read_size = 0

\* one file read, from frame s to frame t
ReadStep(s, t) ==
  /\ (s.pc = "loop" /\ t.pc \in { "loop", "break" }) =>
        LET filepath == s.files[s.index + 1]
        IN  /\ \E now \in Versions(filepath) \cup { << >> } :
                 \E n \in 0..Len(now) :
                   /\ t.read_size = s.read_size + n
                   /\ t.pointer = [j \in 1..s.size |->
                                     IF j > s.read_size /\ j <= s.read_size + n
                                     THEN now[j - s.read_size] ELSE s.pointer[j]]
            /\ t.pc = "break" <=> s.read_size + file_size_get(filepath) > s.size
            /\ t.index = IF t.pc = "break" THEN s.index ELSE s.index + 1
  /\ s.pc = "break" =>
        (t.pc = "returned" /\ t.pointer = s.pointer /\ t.index = s.index)

\* C26: files_read never stores more than size bytes into the buffer: the
\* running read_size stays <= size, each file's bytes are placed directly
\* after the previous file's bytes in list order, reading stops at the
\* first file that would exceed the buffer, and the returned value equals
\* the number of bytes stored.
C26_FilesReadBounded ==
  /\ [](ReadBounded(main))
  /\ [][ReadStep(main, main')]_vars

\* a buffer of 2 bytes for a.txt, bc.txt, a.txt: the first byte of bc.txt
\* is the last one stored and the third file is not read
C26_Witness ==
  /\ main.pc = "returned"
  /\ main.files = << "a.txt", "bc.txt", "a.txt" >>
  /\ main.size = 2
  /\ main.pointer = << 97, 98 >>
  /\ main.index = 1
  /\ main.result = 2

(***************************************************************************)
(* hashing.c: main over its paths, and file.h: files_get with the          *)
(* recursion of dir_files_get and dir_child_files_get.  main is the frame  *)
(* of main(): struct args, the locals of the loop over the paths, and the  *)
(* frames of the running calls of dir_files_get in stack.                   *)
(***************************************************************************)
MaxPaths == 2     \* main gets 1 .. MaxPaths paths
MaxDepth == 3     \* the option --depth is given the values up to MaxDepth

\* #define TYPE_NONE 0 .. TYPE_ELSE 3
TYPE_NONE == 0
TYPE_FILE == 1
TYPE_DIR  == 2
TYPE_ELSE == 3

\* A path is the sequence of its names, a name the sequence of its
\* characters, a type the d_type of struct dirent.  The file system:
\*   d/f  d/.h  d/p (a fifo)  d/s/g  d/s/t/k  d/.c/m  e/ (empty)  a  q (a fifo)
Tree ==
  << [ path |-> << << "d" >> >>,                            type |-> "DT_DIR"  ],
     [ path |-> << << "d" >>, << "f" >> >>,                 type |-> "DT_REG"  ],
     [ path |-> << << "d" >>, << ".", "h" >> >>,            type |-> "DT_REG"  ],
     [ path |-> << << "d" >>, << "p" >> >>,                 type |-> "DT_FIFO" ],
     [ path |-> << << "d" >>, << "s" >> >>,                 type |-> "DT_DIR"  ],
     [ path |-> << << "d" >>, << "s" >>, << "g" >> >>,      type |-> "DT_REG"  ],
     [ path |-> << << "d" >>, << "s" >>, << "t" >> >>,      type |-> "DT_DIR"  ],
     [ path |-> << << "d" >>, << "s" >>, << "t" >>, << "k" >> >>, type |-> "DT_REG" ],
     [ path |-> << << "d" >>, << ".", "c" >> >>,            type |-> "DT_DIR"  ],
     [ path |-> << << "d" >>, << ".", "c" >>, << "m" >> >>, type |-> "DT_REG"  ],
     [ path |-> << << "e" >> >>,                            type |-> "DT_DIR"  ],
     [ path |-> << << "a" >> >>,                            type |-> "DT_REG"  ],
     [ path |-> << << "q" >> >>,                            type |-> "DT_FIFO" ] >>

\* stat(path, &pstat) and the switch on pstat.st_mode & S_IFMT
path_type_get(path) ==
  IF ~\E n \in 1..Len(Tree) : Tree[n].path = path THEN TYPE_NONE
  ELSE LET node == Tree[CHOOSE n \in 1..Len(Tree) : Tree[n].path = path]
       IN  IF node.type = "DT_REG" THEN TYPE_FILE
           ELSE IF node.type = "DT_DIR" THEN TYPE_DIR
           ELSE TYPE_ELSE

\* sprintf(fullpath, "%s/%s", dirpath, child_name)
full_path_create(dirpath, child_name) == Append(dirpath, child_name)

\* the entries of a directory, "." and ".." among them
dir_entries(dirpath) ==
  LET child(node) == /\ Len(node.path) = Len(dirpath) + 1
                     /\ SubSeq(node.path, 1, Len(dirpath)) = dirpath
      children    == SelectSeq(Tree, child)
  IN  [n \in 1..Len(children) |->
         [ d_name |-> children[n].path[Len(dirpath) + 1], d_type |-> children[n].type ]]
        \o << [ d_name |-> << "." >>,      d_type |-> "DT_DIR" ],
              [ d_name |-> << ".", "." >>, d_type |-> "DT_DIR" ] >>

\* The successive results of readdir on an opened directory: the program
\* can rely on no order, here one order or the opposite one.
readdir(dirpath) ==
  LET entries == dir_entries(dirpath)
  IN  { entries, [n \in 1..Len(entries) |-> entries[Len(entries) + 1 - n]] }

\* the value of the decimal digits of s from position from on, value
\* being that of the digits before
RECURSIVE digits_value(_, _, _)
digits_value(s, from, value) ==
  IF from > Len(s) \/ ~\E v \in 1..10 : HexChar[v] = s[from] THEN value
  ELSE digits_value(s, from + 1,
                    (value * 10) + ((CHOOSE v \in 1..10 : HexChar[v] = s[from]) - 1))

\* atoi(arg): the values it may return.  For a number that no int holds the
\* behaviour is undefined: any int.
atoi(arg) ==
  LET negative == Len(arg) > 0 /\ arg[1] = "-"
      value    == digits_value(arg, IF negative THEN 2 ELSE 1, 0)
  IN  IF Len(arg) > 9 THEN { -2147483647, -2, -1, 0, 1, 2147483647 }
      ELSE { IF negative THEN 0 - value ELSE value }

\* struct args args, and the locals of main
NewArgs(given, arg, paths, concat) ==
  [ pc         |-> "argp_parse",
    given      |-> given,
    arg        |-> arg,
    paths      |-> paths,
    path_count |-> Len(paths),
    concat     |-> concat,
    depth      |-> 1,
    index      |-> 0,
    files      |-> << >>,
    count      |-> 0,
    ret        |-> 0,
    stack      |-> << >>,
    stdout     |-> << >> ]

\* main is given 1 .. MaxPaths paths among d, e, a, q and n, which does not
\* exist, and --depth not at all or with one of: -1, 0, -2, x, 2x, the empty
\* string, 99999999999, 1 .. MaxDepth
FsInit ==
  /\ call = [p \in Procs |-> no_call]
  /\ \E path_count \in 1..MaxPaths :
       \E paths \in [1..path_count -> { << << c >> >> : c \in { "d", "e", "a", "q", "n" } }],
          concat \in BOOLEAN :
         \/ main = NewArgs(FALSE, << >>, paths, concat)
         \/ \E arg \in { << "-", "1" >>, << "0" >>, << "-", "2" >>, << "x" >>,
                          << "2", "x" >>, << >>,
                          << "9", "9", "9", "9", "9", "9", "9", "9", "9", "9", "9" >> }
                          \cup { << HexChar[n + 1] >> : n \in 1..MaxDepth } :
              main = NewArgs(TRUE, arg, paths, concat)

\* opt_parse, case 'd': argp_usage ends the program
OptParse ==
  /\ main.pc = "argp_parse"
  /\ \E depth \in (IF main.given THEN atoi(main.arg) ELSE { main.depth }) :
       main' = IF depth = 0 \/ depth < -1
               THEN [main EXCEPT !.pc = "usage"]
               ELSE [main EXCEPT !.depth = depth, !.pc = "main"]
  /\ UNCHANGED call

\* the frame of a call of dir_files_get
NewDir(dirpath, depth) ==
  [ dirpath     |-> dirpath,
    depth       |-> depth,
    opened      |-> FALSE,
    entries     |-> << >>,
    file_amount |-> 0 ]

\* files_get called by main for paths[index]
FilesGet ==
  /\ main.pc = "main"
  /\ main.index < main.path_count
  /\ LET path == main.paths[main.index + 1]
         type == path_type_get(path)
     IN  main' =
           IF type = TYPE_FILE
           THEN [main EXCEPT !.files = Append(@, path),
                             !.count = @ + 1,
                             !.ret   = 1,
                             !.pc    = "files_got"]
           ELSE IF type = TYPE_DIR
           THEN [main EXCEPT !.stack = << NewDir(path, main.depth) >>,
                             !.pc    = "dir_files_get"]
           ELSE [main EXCEPT !.ret = 0, !.pc = "files_got"]
  /\ UNCHANGED call

\* return file_amount from the innermost call of dir_files_get: to the call
\* of dir_files_get that made it through dir_child_files_get, or to files_get
dir_return(m, file_amount) ==
  LET n == Len(m.stack)
  IN  IF n = 1
      THEN [m EXCEPT !.stack = << >>, !.ret = file_amount, !.pc = "files_got"]
      ELSE [m EXCEPT !.stack =
              [SubSeq(m.stack, 1, n - 1) EXCEPT ![n - 1].file_amount = @ + file_amount]]

\* dir_files_get up to its loop: the depth test and opendir
DirFilesGet ==
  /\ main.pc = "dir_files_get"
  /\ ~main.stack[Len(main.stack)].opened
  /\ \E entries \in readdir(main.stack[Len(main.stack)].dirpath) :
       LET n    == Len(main.stack)
           this == main.stack[n]
       IN  main' = IF this.depth = 0 \/ this.depth < -1
                   THEN dir_return(main, 0)
                   ELSE [main EXCEPT !.stack[n].opened  = TRUE,
                                     !.stack[n].entries = entries]
  /\ UNCHANGED call

\* every level of the tree searched with the depth it was entered at
new_depth_same(depth) == depth

\* int new_depth = (depth == -1) ? -1 : (depth - 1);
new_depth(depth) == IF depth = -1 THEN -1 ELSE depth - 1

\* one pass of the loop of dir_files_get: readdir, the test of the dot, and
\* dir_child_files_get
DirChild ==
  /\ main.pc = "dir_files_get"
  /\ main.stack[Len(main.stack)].opened
  /\ main.stack[Len(main.stack)].entries # << >>
  /\ LET n        == Len(main.stack)
         this     == main.stack[n]
         dire     == Head(this.entries)
         fullpath == full_path_create(this.dirpath, dire.d_name)
         read     == [main EXCEPT !.stack[n].entries = Tail(@)]
     IN  main' =
           IF dire.d_name[1] = "." THEN read
           ELSE IF dire.d_type = "DT_REG"
           THEN [read EXCEPT !.files = Append(@, fullpath),
                             !.count = @ + 1,
                             !.stack[n].file_amount = @ + 1]
           ELSE IF dire.d_type = "DT_DIR"
           THEN [read EXCEPT !.stack = Append(@, NewDir(fullpath, new_depth(this.depth)))]
           ELSE read
  /\ UNCHANGED call

\* readdir returns NULL: closedir(dirp); return file_amount;
DirReturn ==
  /\ main.pc = "dir_files_get"
  /\ main.stack[Len(main.stack)].opened
  /\ main.stack[Len(main.stack)].entries = << >>
  /\ main' = dir_return(main, main.stack[Len(main.stack)].file_amount)
  /\ UNCHANGED call

\* main after files_get: the message for the value 0, then the next path,
\* which starts from no files unless the files are concatenated
FilesGot ==
  /\ main.pc = "files_got"
  /\ main' = [main EXCEPT
                !.stdout = IF main.ret = 0
                           THEN Append(@, Line("hashing: %s: No file or directory\n",
                                               << >>, main.paths[main.index + 1]))
                           ELSE @,
                !.files  = IF main.concat THEN @ ELSE << >>,
                !.count  = IF main.concat THEN @ ELSE 0,
                !.index  = @ + 1,
                !.pc     = IF main.index + 1 < main.path_count THEN "main" ELSE "exit"]
  /\ UNCHANGED call

FsNext ==
  \/ OptParse
  \/ FilesGet
  \/ DirFilesGet
  \/ DirChild
  \/ DirReturn
  \/ FilesGot

FsSpec == FsInit /\ [][FsNext]_vars

\* the path main has given to files_get
FsPath(m) == m.paths[m.index + 1]

\* the paths the call of files_get that has returned ret has appended
Appended(m) == { m.files[j] : j \in (m.count - m.ret + 1)..m.count }

\* C27: files_get returns 0 only for bad input or a path that is neither a
\* regular file nor a directory; for an existing regular file or directory
\* it returns the number (> 0) of file paths it appended, which equals the
\* increase of *count, so main prints "No file or directory" only for such
\* bad paths.
C27_ZeroOnlyForBadPath ==
  /\ main.pc = "files_got" =>
       /\ main.ret = 0 => path_type_get(FsPath(main)) \notin { TYPE_FILE, TYPE_DIR }
       /\ path_type_get(FsPath(main)) \in { TYPE_FILE, TYPE_DIR } =>
            /\ main.ret > 0
            /\ main.count = Len(main.files)
            /\ main.ret <= main.count
            /\ Cardinality(Appended(main)) = main.ret
            /\ ~main.concat => main.count = main.ret
  /\ main.pc \in { "main", "files_got", "dir_files_get", "exit" } =>
       \A n \in 1..Len(main.stdout) :
         path_type_get(main.stdout[n].file) \notin { TYPE_FILE, TYPE_DIR }

\* The regular files below the directory root that a search of depth d is to
\* collect: reached through names that do not start with a dot, fewer than
\* d directories below root (at any level for d = -1).
Collected(root, d) ==
  { node.path : node \in
      { n \in { Tree[j] : j \in 1..Len(Tree) } :
          /\ n.type = "DT_REG"
          /\ Len(n.path) > Len(root)
          /\ SubSeq(n.path, 1, Len(root)) = root
          /\ \A j \in (Len(root) + 1)..Len(n.path) : n.path[j][1] # "."
          /\ (d = -1 \/ Len(n.path) - Len(root) - 1 < d) } }

\* an upper bound of the steps a directory entry, the entries not yet read,
\* a call of dir_files_get and a path of main still take
RECURSIVE EntryWeight(_, _)
RECURSIVE EntriesWeight(_, _)
EntryWeight(dirpath, dire) ==
  IF dire.d_name[1] = "." \/ dire.d_type # "DT_DIR" THEN 1
  ELSE 3 + EntriesWeight(full_path_create(dirpath, dire.d_name),
                         dir_entries(full_path_create(dirpath, dire.d_name)))

EntriesWeight(dirpath, entries) ==
  IF entries = << >> THEN 0
  ELSE EntryWeight(dirpath, Head(entries)) + EntriesWeight(dirpath, Tail(entries))

FrameWeight(frame) ==
  IF frame.opened THEN 1 + EntriesWeight(frame.dirpath, frame.entries)
  ELSE 2 + EntriesWeight(frame.dirpath, dir_entries(frame.dirpath))

PathWeight(path) ==
  2 + (IF path_type_get(path) = TYPE_DIR
       THEN 2 + EntriesWeight(path, dir_entries(path))
       ELSE 0)

RECURSIVE PathsWeight(_, _)
PathsWeight(paths, from) ==
  IF from > Len(paths) THEN 0
  ELSE PathWeight(paths[from]) + PathsWeight(paths, from + 1)

RECURSIVE StackWeight(_, _)
StackWeight(stack, from) ==
  IF from > Len(stack) THEN 0
  ELSE FrameWeight(stack[from]) + StackWeight(stack, from + 1)

FsRank(m) ==
  CASE m.pc = "argp_parse"    -> 1 + PathsWeight(m.paths, 1)
    [] m.pc = "main"          -> PathsWeight(m.paths, m.index + 1)
    [] m.pc = "dir_files_get" -> PathsWeight(m.paths, m.index + 2) + 1 + StackWeight(m.stack, 1)
    [] m.pc = "files_got"     -> PathsWeight(m.paths, m.index + 2) + 1
    [] OTHER                  -> 0

DepthHonoured(m) ==
  /\ m.pc \notin { "argp_parse", "usage" } => (m.depth = -1 \/ m.depth >= 1)
  /\ (m.pc = "files_got" /\ path_type_get(FsPath(m)) = TYPE_DIR) =>
       /\ Appended(m) = Collected(FsPath(m), m.depth)
       /\ m.ret = Cardinality(Collected(FsPath(m), m.depth))
  /\ \A n \in 1..Len(m.stack) :
       /\ m.stack[n].depth >= -1
       /\ m.stack[n].opened => m.stack[n].depth # 0
       /\ n > 1 => m.stack[n].dirpath[Len(m.stack[n].dirpath)][1] # "."
  /\ m.pc = "dir_files_get" <=> m.stack # << >>
  /\ m.pc = "main" => m.index < m.path_count
  /\ FsRank(m) >= 0

=============================================================================
